---- MODULE Spec2Model ----
(***************************************************************************)
(* Message-part pipeline of the chat front end: history normalization      *)
(* (src/lib/filter-displayable-messages.ts), the renderer registry         *)
(* (components/chat/renderers/registry.ts) with its default renderers, and *)
(* the source and citation hooks used by the text renderer                 *)
(* (hooks/use-sources-extractor.ts, hooks/use-text-with-citations.ts).     *)
(* Then what one message shows: the network-data hook, the network and    *)
(* reasoning renderers, the message-part dispatcher and its memoization    *)
(* (hooks/use-network-data.ts, components/chat/message-part-renderer.tsx,  *)
(* components/chat/organisms/memoized-message.tsx); the thread-messages    *)
(* query (lib/mastra-queries.ts); and the effects of the chat page         *)
(* (routes/chat.$threadId.tsx).                                            *)
(*                                                                         *)
(* Strings are sequences of one-character strings so that includes(),      *)
(* startsWith() and trim() are computed, not assumed.  An optional field   *)
(* is << >> when absent (undefined) and <<v>> when it holds v.             *)
(***************************************************************************)
EXTENDS Integers, Sequences, FiniteSets, TLC

VARIABLES resolvedMessages, displayableMessages, pc, renderers, sortedRenderers, lookedUp,
          registrationLog, allParts, webSources, networkSources, partText, textDeltas, parsed, rendered,
          chatStatus, isLast, prevProps, displayed,
          isNewChat, initialMessage, messagesLength, initialMessageSentRef, prevStatusRef,
          sendMessageCalls, invalidations, inFlight,
          threadId, listMessages, queryResult

vars == <<resolvedMessages, displayableMessages, pc, renderers, sortedRenderers, lookedUp,
          registrationLog, allParts, webSources, networkSources, partText, textDeltas, parsed, rendered,
          chatStatus, isLast, prevProps, displayed,
          isNewChat, initialMessage, messagesLength, initialMessageSentRef, prevStatusRef,
          sendMessageCalls, invalidations, inFlight,
          threadId, listMessages, queryResult>>

histVars == <<resolvedMessages, displayableMessages, pc>>

\* registrationLog is a history variable: it records the register and
\* unregister calls and is read by no operation of the registry
regVars == <<renderers, sortedRenderers, lookedUp, registrationLog>>

\* what the text renderer works on
textVars == <<allParts, webSources, networkSources, partText, textDeltas, parsed, rendered>>

\* one message of the chat page as MemoizedMessage shows it
viewVars == <<chatStatus, isLast, prevProps, displayed>>

\* the chat page: its props, its refs, and the calls its effects have made
pageVars == <<isNewChat, initialMessage, messagesLength, initialMessageSentRef, prevStatusRef,
              sendMessageCalls, invalidations, inFlight>>

\* the thread-messages query
queryVars == <<threadId, listMessages, queryResult>>

chatVars == <<viewVars, pageVars, queryVars>>

(***************************************************************************)
(* Bounds of the model.                                                    *)
(***************************************************************************)
MaxMsgs == 5

MaxParts == 2

MaxSteps == 1

MaxSourceParts == 3

MaxChunks == 4

(***************************************************************************)
(* Optional values and strings.                                            *)
(***************************************************************************)
None == << >>

Some(v) == <<v>>

IsSome(o) == Len(o) = 1

Val(o) == o[1]

\* no register or unregister call has been recorded
NoLog == [latest |-> << >>, first |-> << >>, erased |-> << >>]

TEXT == <<"t", "e", "x", "t">>

REASONING == <<"r", "e", "a", "s", "o", "n", "i", "n", "g">>

DATA_NETWORK == <<"d", "a", "t", "a", "-", "n", "e", "t", "w", "o", "r", "k">>

DYNAMIC_TOOL == <<"d", "y", "n", "a", "m", "i", "c", "-", "t", "o", "o", "l">>

TOOL_PREFIX == <<"t", "o", "o", "l", "-">>

SOURCE_URL == <<"s", "o", "u", "r", "c", "e", "-", "u", "r", "l">>

SOURCE == <<"s", "o", "u", "r", "c", "e">>

\* values that are not strings: a one-element sequence naming what the value
\* is (no string is one, a string's elements being single characters)
UNDEFINED == <<"undefined">>

A_NUMBER == <<"number">>

IsString(v) == v \notin {UNDEFINED, A_NUMBER}

NETWORK_MESSAGE_MARKER ==
  <<"\"", "i", "s", "N", "e", "t", "w", "o", "r", "k", "\"", ":", "t", "r", "u", "e">>

\* String.prototype.includes
Includes(s, sub) ==
  \E k \in 0..(Len(s) - Len(sub)) : SubSeq(s, k + 1, k + Len(sub)) = sub

\* String.prototype.startsWith
StartsWith(s, prefix) ==
  Len(s) >= Len(prefix) /\ SubSeq(s, 1, Len(prefix)) = prefix

IsSpace(c) == c \in {" ", "\n", "\t"}

RECURSIVE TrimStart(_)
TrimStart(s) ==
  IF s # << >> /\ IsSpace(Head(s)) THEN TrimStart(Tail(s)) ELSE s

RECURSIVE TrimEnd(_)
TrimEnd(s) ==
  IF s # << >> /\ IsSpace(s[Len(s)]) THEN TrimEnd(SubSeq(s, 1, Len(s) - 1)) ELSE s

\* String.prototype.trim
Trim(s) == TrimEnd(TrimStart(s))

\* JavaScript truthiness of an optional string
Truthy(o) == IsSome(o) /\ Val(o) # << >>

(***************************************************************************)
(* lib/utils.ts                                                            *)
(***************************************************************************)
isNetworkMessage(text) == Includes(text, NETWORK_MESSAGE_MARKER)

getTextFromPart(part) ==
  IF part.type = TEXT /\ IsSome(part.text) THEN part.text ELSE None

(***************************************************************************)
(* lib/filter-displayable-messages.ts, first pass: map over the messages   *)
(***************************************************************************)
\* a plausible slip: the whole task is dropped together with its reason
scrubStepDropsTask(step) ==
  IF IsSome(step.task) /\ Truthy(Val(step.task).reason)
    THEN [step EXCEPT !.task = None]
    ELSE step

scrubStep(step) ==
  IF IsSome(step.task) /\ Truthy(Val(step.task).reason)
    THEN [step EXCEPT !.task = Some([Val(step.task) EXCEPT !.reason = None])]
    ELSE step

scrubPart(part) ==
  IF part.type = DATA_NETWORK /\ IsSome(part.data)
    THEN [part EXCEPT !.data =
            Some([Val(part.data) EXCEPT !.steps =
                    IF IsSome(Val(part.data).steps)
                      THEN LET steps == Val(Val(part.data).steps)
                           IN  Some([q \in 1..Len(steps) |-> scrubStep(steps[q])])
                      ELSE None])]
    ELSE part

isNotReasoning(part) == part.type # REASONING

\* a plausible slip: reasoning is only stripped from assistant messages
filteredPartsAssistantOnly(message) ==
  LET kept == IF message.role = "assistant"
                THEN SelectSeq(message.parts, isNotReasoning)
                ELSE message.parts
  IN  [k \in 1..Len(kept) |-> scrubPart(kept[k])]

filteredParts(message) ==
  LET kept == SelectSeq(message.parts, isNotReasoning)
  IN  [k \in 1..Len(kept) |-> scrubPart(kept[k])]

stripMessage(message) == [message EXCEPT !.parts = filteredParts(message)]

(***************************************************************************)
(* second pass: the filter predicate                                       *)
(***************************************************************************)
\* a plausible slip: the completion check is consulted only for messages
\* that carry no displayable tool output
isCompletionCheckTextOnly(message) ==
  /\ IsSome(message.metadata)
  /\ Val(message.metadata).mode = Some("network")
  /\ IsSome(Val(message.metadata).completionResult)
  /\ \A k \in 1..Len(message.parts) : message.parts[k].type = TEXT

isCompletionCheck(message) ==
  /\ IsSome(message.metadata)
  /\ Val(message.metadata).mode = Some("network")
  /\ IsSome(Val(message.metadata).completionResult)

\* Array.prototype.find: index of the first text part, 0 when there is none
findTextPart(parts) ==
  IF \E k \in 1..Len(parts) : parts[k].type = TEXT
    THEN CHOOSE k \in 1..Len(parts) :
           /\ parts[k].type = TEXT
           /\ \A j \in 1..(k - 1) : parts[j].type # TEXT
    ELSE 0

isNetworkJson(message) ==
  LET k == findTextPart(message.parts)
      textContent == IF k = 0 THEN None ELSE getTextFromPart(message.parts[k])
  IN  Truthy(textContent) /\ isNetworkMessage(Val(textContent))

\* a plausible slip: text counts as displayable without the trim() test
partIsDisplayableNoTrim(part) ==
  IF part.type = TEXT
    THEN Truthy(getTextFromPart(part))
    ELSE \/ StartsWith(part.type, TOOL_PREFIX)
         \/ part.type = DATA_NETWORK
         \/ part.type = DYNAMIC_TOOL

partIsDisplayable(part) ==
  IF part.type = TEXT
    THEN LET text == getTextFromPart(part)
         IN  Truthy(text) /\ Trim(Val(text)) # << >>
    ELSE \/ StartsWith(part.type, TOOL_PREFIX)
         \/ part.type = DATA_NETWORK
         \/ part.type = DYNAMIC_TOOL

hasDisplayableContent(message) ==
  \E k \in 1..Len(message.parts) : partIsDisplayable(message.parts[k])

keepMessage(message) ==
  /\ ~isCompletionCheck(message)
  /\ ~isNetworkJson(message)
  /\ hasDisplayableContent(message)

filteredMessages(messages) ==
  SelectSeq([k \in 1..Len(messages) |-> stripMessage(messages[k])], keepMessage)

(***************************************************************************)
(* third pass: the dedup loop over filteredMessages (indices are 1-based)  *)
(***************************************************************************)
hasDynamicTool(message) ==
  \E k \in 1..Len(message.parts) : message.parts[k].type = DYNAMIC_TOOL

hasOnlyText(message) ==
  \A k \in 1..Len(message.parts) : message.parts[k].type = TEXT

\* a plausible slip: only the text-only continuations are skipped
continuesRunTextOnly(nextMessage) ==
  /\ nextMessage.role = "assistant"
  /\ hasOnlyText(nextMessage)

continuesRun(nextMessage) ==
  /\ nextMessage.role = "assistant"
  /\ hasDynamicTool(nextMessage) \/ hasOnlyText(nextMessage)

\* a plausible slip: `if` in place of the inner `while`, one message skipped
lookAheadOnce(fm, lastRelevantIndex) ==
  IF lastRelevantIndex + 1 <= Len(fm) /\ continuesRun(fm[lastRelevantIndex + 1])
    THEN lastRelevantIndex + 1
    ELSE lastRelevantIndex

\* a plausible slip: text-only continuations are not skipped
lookAheadDynamicOnly(fm, lastRelevantIndex) ==
  LET RECURSIVE scan(_)
      scan(l) ==
        IF /\ l + 1 <= Len(fm)
           /\ fm[l + 1].role = "assistant"
           /\ hasDynamicTool(fm[l + 1])
          THEN scan(l + 1)
          ELSE l
  IN  scan(lastRelevantIndex)

\* the inner while loop: the last index of the run that starts at
\* lastRelevantIndex
RECURSIVE lookAhead(_, _)
lookAhead(fm, lastRelevantIndex) ==
  IF lastRelevantIndex + 1 <= Len(fm) /\ continuesRun(fm[lastRelevantIndex + 1])
    THEN lookAhead(fm, lastRelevantIndex + 1)
    ELSE lastRelevantIndex

\* a plausible slip, after the header comment "keeps only the last one"
runSurvivorLast(fm, i) == fm[lookAhead(fm, i)]

\* the message pushed for the run that starts at i
runSurvivor(fm, i) == fm[i]

\* a plausible slip: the first and the last message of the run are both pushed
pushedForRunBothEnds(fm, i) == <<fm[i], fm[lookAhead(fm, i)]>>

pushedForRun(fm, i) == <<runSurvivor(fm, i)>>

\* the outer while loop
RECURSIVE dedupFrom(_, _, _)
dedupFrom(fm, i, deduplicatedMessages) ==
  IF i > Len(fm)
    THEN deduplicatedMessages
    ELSE IF fm[i].role = "assistant" /\ hasDynamicTool(fm[i])
           THEN dedupFrom(fm, lookAhead(fm, i) + 1,
                          deduplicatedMessages \o pushedForRun(fm, i))
           ELSE dedupFrom(fm, i + 1, Append(deduplicatedMessages, fm[i]))

filterDisplayableMessages(messages) == dedupFrom(filteredMessages(messages), 1, << >>)

(***************************************************************************)
(* Stored parts, steps and messages                                        *)
(***************************************************************************)
MkPart(type, text, data) ==
  [type |-> type, text |-> text, data |-> data, output |-> None, toolName |-> None]

TextOf(chars) == MkPart(TEXT, Some(chars), None)

DONE == <<"d", "o", "n", "e">>

BLANK == <<" ", "\n">>

NETWORK_JSON == <<"{">> \o NETWORK_MESSAGE_MARKER \o <<",", "}">>

NOT_NETWORK_JSON ==
  <<"{", "\"", "i", "s", "N", "e", "t", "w", "o", "r", "k", "\"", ":", "f", "}">>

ReasoningPart == MkPart(REASONING, Some(<<"h", "m">>), None)

ToolPart == MkPart(TOOL_PREFIX \o <<"w", "e", "b">>, None, None)

DynamicToolPart ==
  [MkPart(DYNAMIC_TOOL, None, None) EXCEPT !.output = Some("childMessages")]

SourceUrlPart == MkPart(SOURCE_URL, None, None)

NetworkPart(steps) ==
  MkPart(DATA_NETWORK, None,
         Some([name |-> "routing-agent", status |-> "finished", steps |-> Some(steps)]))

MkTask(reason) == [id |-> "t1", type |-> "agent", reason |-> reason, toolResults |-> "results"]

ReasonedStep ==
  [name |-> "agent-step", status |-> "success", task |-> Some(MkTask(Some(<<"w", "h", "y">>))),
   output |-> "o4"]

StepShapes ==
  { [name |-> "routing-step", status |-> "success", task |-> None, output |-> "o1"],
    [name |-> "agent-step", status |-> "success", task |-> Some(MkTask(None)), output |-> "o2"],
    [name |-> "agent-step", status |-> "running", task |-> Some(MkTask(Some(<< >>))), output |-> "o3"],
    ReasonedStep }

PartShapes ==
  { TextOf(DONE), TextOf(BLANK), TextOf(NETWORK_JSON), TextOf(NOT_NETWORK_JSON),
    ReasoningPart, ToolPart, DynamicToolPart, SourceUrlPart, NetworkPart(<< >>) }

NoMetadata == None

Metadata(mode, completionResult) ==
  Some([mode |-> mode, completionResult |-> completionResult])

CompletionCheck == Metadata(Some("network"), Some("completionResult"))

Metadatas ==
  { NoMetadata, CompletionCheck, Metadata(Some("network"), None),
    Metadata(Some("agent"), Some("completionResult")) }

Roles == {"user", "assistant"}

MkMessage(id, role, metadata, parts) ==
  [id |-> id, role |-> role, metadata |-> metadata, parts |-> parts]

\* the message shapes of a stored agent-network thread
HistoryShapes ==
  { MkMessage(0, "user", NoMetadata, <<TextOf(DONE)>>),
    MkMessage(0, "user", NoMetadata, <<TextOf(BLANK)>>),
    MkMessage(0, "assistant", NoMetadata, <<DynamicToolPart>>),
    MkMessage(0, "assistant", NoMetadata, <<TextOf(DONE)>>),
    MkMessage(0, "assistant", NoMetadata, <<ToolPart>>),
    MkMessage(0, "assistant", NoMetadata, <<DynamicToolPart, ToolPart>>),
    MkMessage(0, "assistant", CompletionCheck, <<DynamicToolPart>>),
    MkMessage(0, "assistant", NoMetadata, <<ReasoningPart, TextOf(DONE)>>),
    MkMessage(0, "assistant", NoMetadata, <<NetworkPart(<<ReasonedStep>>)>>) }

(***************************************************************************)
(* The thread-messages query                                               *)
(***************************************************************************)
\* nothing stored or loaded yet; the registry is as constructed
HistoryInit ==
  /\ resolvedMessages = << >>
  /\ displayableMessages = << >>
  /\ pc = "storing"
  /\ renderers = << >>
  /\ sortedRenderers = << >>
  /\ lookedUp = None
  /\ registrationLog = NoLog
  /\ chatStatus = "ready"
  /\ isLast = TRUE
  /\ prevProps = << >>
  /\ displayed = << >>
  /\ isNewChat = FALSE
  /\ initialMessage = << >>
  /\ messagesLength = 0
  /\ initialMessageSentRef = FALSE
  /\ prevStatusRef = "ready"
  /\ sendMessageCalls = 0
  /\ invalidations = 0
  /\ inFlight = {}
  /\ threadId = << >>
  /\ listMessages = << >>
  /\ queryResult = << >>
  /\ allParts = << >>
  /\ webSources = None
  /\ networkSources = None
  /\ partText = << >>
  /\ textDeltas = 0
  /\ parsed = None
  /\ rendered = None

\* the storage layer persists one more message of the thread
PersistMessage ==
  /\ pc = "storing"
  /\ Len(resolvedMessages) < MaxMsgs
  /\ \E shape \in HistoryShapes :
       resolvedMessages' =
         Append(resolvedMessages, [shape EXCEPT !.id = Len(resolvedMessages) + 1])
  /\ UNCHANGED <<displayableMessages, pc, regVars, textVars, chatVars>>

\* a first message of a thread is created, still without parts
CreateMessage ==
  /\ pc = "storing"
  /\ resolvedMessages = << >>
  /\ \E role \in Roles, metadata \in Metadatas :
       resolvedMessages' = <<MkMessage(1, role, metadata, << >>)>>
  /\ UNCHANGED <<displayableMessages, pc, regVars, textVars, chatVars>>

\* one more part of the message under construction
AppendPart ==
  /\ pc = "storing"
  /\ Len(resolvedMessages) = 1
  /\ Len(resolvedMessages[1].parts) < MaxParts
  /\ \E part \in PartShapes :
       resolvedMessages' = [resolvedMessages EXCEPT ![1].parts = Append(@, part)]
  /\ UNCHANGED <<displayableMessages, pc, regVars, textVars, chatVars>>

\* one more step of the network trace that is the message's last part
AppendStep ==
  /\ pc = "storing"
  /\ Len(resolvedMessages) = 1
  /\ resolvedMessages[1].parts # << >>
  /\ LET n == Len(resolvedMessages[1].parts)
         part == resolvedMessages[1].parts[n]
     IN  /\ part.type = DATA_NETWORK
         /\ Len(Val(Val(part.data).steps)) < MaxSteps
         /\ \E step \in StepShapes :
              resolvedMessages' =
                [resolvedMessages EXCEPT ![1].parts[n].data =
                   Some([Val(part.data) EXCEPT !.steps = Some(Append(Val(@), step))])]
  /\ UNCHANGED <<displayableMessages, pc, regVars, textVars, chatVars>>

\* queryFn of threadMessagesQueryOptions, the non-failing path
Fetch ==
  /\ pc = "storing"
  /\ displayableMessages' =
       IF Len(resolvedMessages) = 0
         THEN << >>
         ELSE filterDisplayableMessages(resolvedMessages)
  /\ pc' = "loaded"
  /\ UNCHANGED <<resolvedMessages, regVars, textVars, chatVars>>

HistoryNext == PersistMessage \/ Fetch

SpecHistory == HistoryInit /\ [][HistoryNext]_vars

MessageNext == CreateMessage \/ AppendPart \/ AppendStep \/ Fetch

SpecMessage == HistoryInit /\ [][MessageNext]_vars

(***************************************************************************)
(* Properties of the history normalization                                 *)
(***************************************************************************)
Loaded == pc = "loaded"

Ids(messages) == {messages[k].id : k \in 1..Len(messages)}

Retained(id) == id \in Ids(displayableMessages)

\* what the dedup loop is given: the messages that survive the first two passes
Survivors == filteredMessages(resolvedMessages)

PartTypes(message) == {message.parts[k].type : k \in 1..Len(message.parts)}

IsDynamicAssistant(m) == m.role = "assistant" /\ DYNAMIC_TOOL \in PartTypes(m)

IsContinuation(m) ==
  m.role = "assistant" /\ (DYNAMIC_TOOL \in PartTypes(m) \/ PartTypes(m) \subseteq {TEXT})

\* fm[j] follows a dynamic-tool assistant message through continuations only
InRunTail(fm, j) ==
  \E i \in 1..(j - 1) :
    IsDynamicAssistant(fm[i]) /\ \A k \in (i + 1)..j : IsContinuation(fm[k])

Shape(m) == [m EXCEPT !.id = 0]

UserSays == MkMessage(0, "user", NoMetadata, <<TextOf(DONE)>>)

AssistantDynamic == MkMessage(0, "assistant", NoMetadata, <<DynamicToolPart>>)

AssistantSays == MkMessage(0, "assistant", NoMetadata, <<TextOf(DONE)>>)

DedupScenario ==
  /\ Len(resolvedMessages) = 5
  /\ Shape(resolvedMessages[1]) = UserSays
  /\ Shape(resolvedMessages[2]) = AssistantDynamic
  /\ Shape(resolvedMessages[3]) = AssistantDynamic
  /\ Shape(resolvedMessages[4]) = AssistantSays
  /\ Shape(resolvedMessages[5]) = UserSays

\* C1: normalizing the normalized conversation once more changes nothing:
\* no message, part or step is removed or altered by a second run.
NormalizationIdempotent ==
  Loaded => filterDisplayableMessages(displayableMessages) = displayableMessages

\* a first run that stripped reasoning, dropped a message and cut a run
NormalizationIdempotentWitness ==
  /\ Loaded
  /\ Len(resolvedMessages) = MaxMsgs
  /\ \E k \in 1..Len(resolvedMessages) : REASONING \in PartTypes(resolvedMessages[k])
  /\ \E k \in 1..Len(resolvedMessages) : isCompletionCheck(resolvedMessages[k])
  /\ \E k \in 1..Len(displayableMessages) : IsDynamicAssistant(displayableMessages[k])
  /\ Len(displayableMessages) = 2

EndsRunAsClaimed(m) ==
  m.role = "user" \/ ~(PartTypes(m) \subseteq {DYNAMIC_TOOL, TEXT})

\* the run-ending test the loop applies: a user message, or an assistant
\* message without a dynamic-tool part that has some part other than text
EndsRun(m) ==
  m.role = "user" \/ (DYNAMIC_TOOL \notin PartTypes(m) /\ ~(PartTypes(m) \subseteq {TEXT}))

FirstClaimedEndAfter(fm, i, e) ==
  /\ e \in (i + 1)..Len(fm)
  /\ EndsRunAsClaimed(fm[e])
  /\ \A k \in (i + 1)..(e - 1) : ~EndsRunAsClaimed(fm[k])

FirstEndAfter(fm, i, e) ==
  /\ e \in (i + 1)..Len(fm)
  /\ EndsRun(fm[e])
  /\ \A k \in (i + 1)..(e - 1) : ~EndsRun(fm[k])

\* C3 as stated: scanning forward from a retained dynamic-tool assistant
\* message, the first user message or assistant message with a part that is
\* neither dynamic-tool nor text ends the run and is itself not dropped.
RunEndsAtAnyOtherPart ==
  Loaded =>
    LET fm == Survivors
    IN  \A i \in 1..Len(fm) :
          IsDynamicAssistant(fm[i]) /\ Retained(fm[i].id) =>
            \A e \in 1..Len(fm) :
              FirstClaimedEndAfter(fm, i, e) => Retained(fm[e].id)

\* C3 amended: scanning forward from a retained dynamic-tool assistant message,
\* the run ends at the first user message or assistant message that has no
\* dynamic-tool part and some non-text part; that message is kept, every message
\* before it in the run is dropped, and when no such message follows, the run
\* takes every remaining message.
RunEndsAtNonDynamicOtherPart ==
  Loaded =>
    LET fm == Survivors
    IN  \A i \in 1..Len(fm) :
          IsDynamicAssistant(fm[i]) /\ Retained(fm[i].id) =>
            /\ \A e \in 1..Len(fm) :
                 FirstEndAfter(fm, i, e) =>
                   /\ Retained(fm[e].id)
                   /\ \A k \in (i + 1)..(e - 1) : ~Retained(fm[k].id)
            /\ (\A e \in (i + 1)..Len(fm) : ~EndsRun(fm[e])) =>
                 \A k \in (i + 1)..Len(fm) : ~Retained(fm[k].id)

\* a run that swallows a message holding a dynamic-tool and a tool part and is
\* ended by a tool message
RunEndsAtNonDynamicOtherPartWitness ==
  /\ Loaded
  /\ Len(resolvedMessages) = 3
  /\ Shape(resolvedMessages[1]) = AssistantDynamic
  /\ PartTypes(resolvedMessages[2]) = {DYNAMIC_TOOL, ToolPart.type}
  /\ PartTypes(resolvedMessages[3]) = {ToolPart.type}
  /\ Ids(displayableMessages) = {1, 3}

\* C4: no message of the normalized conversation holds a reasoning part,
\* wherever the part sat in the stored message and whatever the role.
ReasoningNeverInHistory ==
  Loaded =>
    \A k \in 1..Len(displayableMessages) : REASONING \notin PartTypes(displayableMessages[k])

\* a retained user message whose stored form ended in a reasoning part
ReasoningNeverInHistoryWitness ==
  /\ Loaded
  /\ Len(resolvedMessages) = 1
  /\ resolvedMessages[1].role = "user"
  /\ Len(resolvedMessages[1].parts) = 2
  /\ resolvedMessages[1].parts[2].type = REASONING
  /\ Retained(1)

HoldsMarker(part) ==
  /\ part.type = TEXT
  /\ IsSome(part.text)
  /\ \E k \in 1..(Len(Val(part.text)) - Len(NETWORK_MESSAGE_MARKER) + 1) :
       SubSeq(Val(part.text), k, k + Len(NETWORK_MESSAGE_MARKER) - 1) = NETWORK_MESSAGE_MARKER

\* C5: a message with a text part whose text contains "isNetwork":true is
\* absent from the normalized conversation, whichever of its text parts
\* holds the marker and whatever its other parts are.
NetworkMarkerSuppressed ==
  Loaded =>
    \A k \in 1..Len(resolvedMessages) :
      (\E j \in 1..Len(resolvedMessages[k].parts) : HoldsMarker(resolvedMessages[k].parts[j]))
        => ~Retained(resolvedMessages[k].id)

\* C6: a message whose metadata has mode "network" and a completionResult is
\* absent from the normalized conversation, whatever its parts.
CompletionCheckSuppressed ==
  Loaded =>
    \A k \in 1..Len(resolvedMessages) :
      LET metadata == resolvedMessages[k].metadata
      IN  (metadata # NoMetadata
             /\ Val(metadata).mode = Some("network")
             /\ Val(metadata).completionResult # None)
            => ~Retained(resolvedMessages[k].id)

\* a completion-check message holding a dynamic-tool and a network part
CompletionCheckSuppressedWitness ==
  /\ Loaded
  /\ Len(resolvedMessages) = 1
  /\ resolvedMessages[1].metadata = CompletionCheck
  /\ PartTypes(resolvedMessages[1]) = {DYNAMIC_TOOL, DATA_NETWORK}
  /\ displayableMessages = << >>

HasInk(chars) == \E k \in 1..Len(chars) : chars[k] \notin {" ", "\n", "\t"}

ShowsSomething(part) ==
  \/ part.type = TEXT /\ IsSome(part.text) /\ HasInk(Val(part.text))
  \/ Len(part.type) >= 5 /\ SubSeq(part.type, 1, 5) = <<"t", "o", "o", "l", "-">>
  \/ part.type \in {DATA_NETWORK, DYNAMIC_TOOL}

\* C7: every message of the normalized conversation has a part that is text
\* with a non-whitespace character, a tool-* part, a data-network part or a
\* dynamic-tool part, and a stored message made only of blank text and
\* reasoning parts is dropped.
DisplayableContentInvariant ==
  Loaded =>
    /\ \A k \in 1..Len(displayableMessages) :
         \E j \in 1..Len(displayableMessages[k].parts) :
           ShowsSomething(displayableMessages[k].parts[j])
    /\ \A k \in 1..Len(resolvedMessages) :
         (\A j \in 1..Len(resolvedMessages[k].parts) :
            LET part == resolvedMessages[k].parts[j]
            IN  \/ part.type = REASONING
                \/ part.type = TEXT /\ IsSome(part.text) /\ ~HasInk(Val(part.text)))
           => ~Retained(resolvedMessages[k].id)

\* a message of blank text and reasoning that the load dropped
DisplayableContentInvariantWitness ==
  /\ Loaded
  /\ Len(resolvedMessages) = 1
  /\ resolvedMessages[1].parts = <<TextOf(BLANK), ReasoningPart>>
  /\ displayableMessages = << >>

StepKept(before, after) ==
  /\ after.name = before.name
  /\ after.status = before.status
  /\ after.output = before.output
  /\ IsSome(after.task) = IsSome(before.task)
  /\ IsSome(before.task) =>
       /\ Val(after.task).id = Val(before.task).id
       /\ Val(after.task).type = Val(before.task).type
       /\ Val(after.task).toolResults = Val(before.task).toolResults
       /\ Val(after.task).reason \in {None, Some(<< >>)}
       /\ Val(before.task).reason \in {None, Some(<< >>)} =>
            Val(after.task).reason = Val(before.task).reason

PartKept(before, after) ==
  IF before.type = DATA_NETWORK
    THEN /\ after.type = before.type
         /\ after.text = before.text
         /\ Val(after.data).name = Val(before.data).name
         /\ Val(after.data).status = Val(before.data).status
         /\ Len(Val(Val(after.data).steps)) = Len(Val(Val(before.data).steps))
         /\ \A q \in 1..Len(Val(Val(before.data).steps)) :
              StepKept(Val(Val(before.data).steps)[q], Val(Val(after.data).steps)[q])
    ELSE after = before

OrderPreserved ==
  Loaded =>
    /\ \A k \in 1..Len(displayableMessages) :
         /\ displayableMessages[k].id \in 1..Len(resolvedMessages)
         /\ displayableMessages[k].role = resolvedMessages[displayableMessages[k].id].role
    /\ \A k \in 1..(Len(displayableMessages) - 1) :
         displayableMessages[k].id < displayableMessages[k + 1].id
    /\ (resolvedMessages = << >> => displayableMessages = << >>)

\* messages dropped from the middle of a conversation, by the filter and by
\* the dedup loop, with retained messages on both sides
OrderPreservedWitness ==
  /\ Loaded
  /\ Len(resolvedMessages) = 5
  /\ Ids(displayableMessages) = {1, 3, 5}
  /\ Ids(Survivors) = {1, 3, 4, 5}

(***************************************************************************)
(* components/chat/renderers: type guards, renderers and the registry      *)
(***************************************************************************)
isTextPart(part) == part.type = TEXT /\ IsSome(part.text)

isReasoningPart(part) == part.type = REASONING /\ IsSome(part.text)

isNetworkPart(part) == part.type = DATA_NETWORK /\ IsSome(part.data)

isSourceUrlPart(part) == part.type = SOURCE_URL

isSourcePart(part) == part.type = SOURCE

isDynamicToolPart(part) == part.type = DYNAMIC_TOOL /\ IsSome(part.output)

\* part.type.startsWith('tool-'), when part.type is a string
isToolPart(part) == IsString(part.type) /\ StartsWith(part.type, TOOL_PREFIX)

\* part.type.startsWith is a TypeError when part.type is undefined (no
\* property can be read of it) or a value without that method
isToolPartThrows(part) == ~IsString(part.type)

\* weatherRenderer.canRender (the modelled parts carry toolName, never name)
isWeatherTool(part) ==
  /\ isToolPart(part)
  /\ part.toolName \in {Some("get-weather"), Some("weatherTool")}

\* renderer.canRender(part): a renderer names the predicate it was built with
canRender(renderer, part) ==
  CASE renderer.canRender = "isTextPart" -> isTextPart(part)
    [] renderer.canRender = "isToolPart" -> isToolPart(part)
    [] renderer.canRender = "isWeatherTool" -> isWeatherTool(part)
    [] renderer.canRender = "isReasoningPart" -> isReasoningPart(part)
    [] renderer.canRender = "isNetworkPart" -> isNetworkPart(part)
    [] renderer.canRender = "isDynamicToolPart" -> isDynamicToolPart(part)

\* renderer.canRender(part) ends in an exception: toolRenderer's predicate is
\* isToolPart and weatherRenderer's starts with a call of it
canRenderThrows(renderer, part) ==
  renderer.canRender \in {"isToolPart", "isWeatherTool"} /\ isToolPartThrows(part)

MkRenderer(type, priority, predicate) ==
  [type |-> type, priority |-> priority, canRender |-> predicate]

textRenderer == MkRenderer("text", Some(10), "isTextPart")

toolRenderer == MkRenderer("tool", Some(5), "isToolPart")

weatherRenderer == MkRenderer("tool-call", Some(50), "isWeatherTool")

reasoningRenderer == MkRenderer("reasoning", Some(20), "isReasoningPart")

networkRenderer == MkRenderer("data-network", Some(15), "isNetworkPart")

dynamicToolRenderer == MkRenderer("dynamic-tool", Some(8), "isDynamicToolPart")

\* priority ?? 0
priorityOf(renderer) == IF IsSome(renderer.priority) THEN Val(renderer.priority) ELSE 0

\* a plausible slip: the comparator sorts the lowest priority first
compareAscending(a, b) == priorityOf(a) - priorityOf(b)

\* the sort comparator: negative when a goes before b
compare(a, b) == priorityOf(b) - priorityOf(a)

\* Array.prototype.sort is stable: x goes before the first element it must
\* precede and after every element it ties with
insertSorted(sorted, x) ==
  IF \E k \in 1..Len(sorted) : compare(x, sorted[k]) < 0
    THEN LET k == CHOOSE q \in 1..Len(sorted) :
                    /\ compare(x, sorted[q]) < 0
                    /\ \A j \in 1..(q - 1) : compare(x, sorted[j]) >= 0
         IN  SubSeq(sorted, 1, k - 1) \o <<x>> \o SubSeq(sorted, k, Len(sorted))
    ELSE Append(sorted, x)

RECURSIVE sortInto(_, _)
sortInto(sorted, rest) ==
  IF rest = << >> THEN sorted ELSE sortInto(insertSorted(sorted, Head(rest)), Tail(rest))

\* Array.from(this.renderers.values()).sort(...)
updateSortedRenderers(map) == sortInto(<< >>, map)

\* a plausible slip: setting an existing key moves it to the end of the
\* iteration order (delete, then insert)
mapSetMovesToEnd(map, renderer) ==
  Append(SelectSeq(map, LAMBDA r : r.type # renderer.type), renderer)

\* a plausible slip: an existing key keeps the entry it already holds
mapSetKeepsFirst(map, renderer) ==
  IF \E k \in 1..Len(map) : map[k].type = renderer.type THEN map ELSE Append(map, renderer)

\* Map.prototype.set: an existing key keeps its place in the iteration order
mapSet(map, renderer) ==
  IF \E k \in 1..Len(map) : map[k].type = renderer.type
    THEN [k \in 1..Len(map) |-> IF map[k].type = renderer.type THEN renderer ELSE map[k]]
    ELSE Append(map, renderer)

\* Map.prototype.delete
mapDelete(map, type) == SelectSeq(map, LAMBDA r : r.type # type)

\* a plausible slip: when no renderer accepts the part the lookup falls back
\* to the last renderer of the sorted view
firstMatchOrFallback(sorted, part) ==
  IF \E k \in 1..Len(sorted) : canRender(sorted[k], part)
    THEN Some(sorted[CHOOSE k \in 1..Len(sorted) :
                       /\ canRender(sorted[k], part)
                       /\ \A j \in 1..(k - 1) : ~canRender(sorted[j], part)])
    ELSE IF sorted = << >> THEN None ELSE Some(sorted[Len(sorted)])

\* the for loop of getRenderer leaves by an exception: some canRender call
\* throws before any renderer has accepted the part
lookupThrows(sorted, part) ==
  \E k \in 1..Len(sorted) :
    /\ canRenderThrows(sorted[k], part)
    /\ \A j \in 1..(k - 1) : ~canRender(sorted[j], part)

\* the for loop of getRenderer: the first renderer of the sorted view that
\* accepts the part, or null
firstMatch(sorted, part) ==
  IF \E k \in 1..Len(sorted) : canRender(sorted[k], part)
    THEN Some(sorted[CHOOSE k \in 1..Len(sorted) :
                       /\ canRender(sorted[k], part)
                       /\ \A j \in 1..(k - 1) : ~canRender(sorted[j], part)])
    ELSE None

\* one call of getRenderer: the part, whether the call threw, and the renderer
\* it returned (null also when it threw)
lookup(sorted, part) ==
  [part |-> part,
   threw |-> lookupThrows(sorted, part),
   renderer |-> IF lookupThrows(sorted, part) THEN None ELSE firstMatch(sorted, part)]

RendererTypes == {"text", "tool", "tool-call"}

Priorities == {None, Some(-1), Some(5), Some(10), Some(50)}

Predicates == {"isTextPart", "isToolPart", "isWeatherTool"}

RendererShapes ==
  {MkRenderer(type, priority, predicate) :
     type \in RendererTypes, priority \in Priorities, predicate \in Predicates}

WeatherCall ==
  [MkPart(TOOL_PREFIX \o <<"w", "e", "a", "t", "h", "e", "r">>, None, None)
     EXCEPT !.toolName = Some("weatherTool")]

SearchCall == [ToolPart EXCEPT !.toolName = Some("web-search")]

LookupParts == {TextOf(DONE), SearchCall, WeatherCall, SourceUrlPart}

\* new RendererRegistry(); no thread is being loaded
RegistryInit ==
  /\ renderers = << >>
  /\ sortedRenderers = << >>
  /\ lookedUp = None
  /\ resolvedMessages = << >>
  /\ displayableMessages = << >>
  /\ pc = "idle"
  /\ registrationLog = NoLog
  /\ chatStatus = "ready"
  /\ isLast = TRUE
  /\ prevProps = << >>
  /\ displayed = << >>
  /\ isNewChat = FALSE
  /\ initialMessage = << >>
  /\ messagesLength = 0
  /\ initialMessageSentRef = FALSE
  /\ prevStatusRef = "ready"
  /\ sendMessageCalls = 0
  /\ invalidations = 0
  /\ inFlight = {}
  /\ threadId = << >>
  /\ listMessages = << >>
  /\ queryResult = << >>
  /\ allParts = << >>
  /\ webSources = None
  /\ networkSources = None
  /\ partText = << >>
  /\ textDeltas = 0
  /\ parsed = None
  /\ rendered = None

\* RendererRegistry.register
register ==
  /\ \E renderer \in RendererShapes :
       /\ renderers' = mapSet(renderers, renderer)
       /\ sortedRenderers' = updateSortedRenderers(mapSet(renderers, renderer))
  /\ lookedUp' = None
  /\ UNCHANGED <<registrationLog, histVars, textVars, chatVars>>

\* RendererRegistry.unregister
unregister ==
  /\ \E type \in RendererTypes :
       /\ renderers' = mapDelete(renderers, type)
       /\ sortedRenderers' = updateSortedRenderers(mapDelete(renderers, type))
  /\ lookedUp' = None
  /\ UNCHANGED <<registrationLog, histVars, textVars, chatVars>>

\* a plausible slip: the lookup moves the renderer it found to the front of
\* the sorted view, as a most-recently-used cache would
getRendererMovesToFront ==
  /\ \E part \in LookupParts :
       LET found == firstMatch(sortedRenderers, part)
       IN  /\ lookedUp' = Some(lookup(sortedRenderers, part))
           /\ sortedRenderers' =
                 IF found = None
                   THEN sortedRenderers
                   ELSE found \o SelectSeq(sortedRenderers, LAMBDA r : r # Val(found))
  /\ UNCHANGED <<renderers, registrationLog, histVars, textVars, chatVars>>

\* RendererRegistry.getRenderer: lookedUp holds the part and what was returned
getRenderer ==
  /\ \E part \in LookupParts :
       lookedUp' = Some(lookup(sortedRenderers, part))
  /\ UNCHANGED <<renderers, sortedRenderers, registrationLog, histVars, textVars, chatVars>>

RegistryNext == register \/ unregister \/ getRenderer

SpecRegistry == RegistryInit /\ [][RegistryNext]_vars

(***************************************************************************)
(* Properties of the renderer registry                                     *)
(***************************************************************************)
Registered == {renderers[k] : k \in 1..Len(renderers)}

Accepting(part) == {r \in Registered : canRender(r, part)}

Rank(r) == IF r.priority = None THEN 0 ELSE r.priority[1]

\* C10: when some registered renderer accepts the looked-up part, getRenderer
\* returns a registered renderer that accepts it and whose priority (0 when
\* missing) is at least that of every registered renderer accepting it; so a
\* priority-10 renderer wins over a priority-5 one in either registration order.
LookupRespectsPriority ==
  lookedUp # None =>
    LET part == Val(lookedUp).part
        found == Val(lookedUp).renderer
    IN  Accepting(part) # {} =>
          /\ found # None
          /\ Val(found) \in Accepting(part)
          /\ \A other \in Accepting(part) : Rank(Val(found)) >= Rank(other)

\* a priority-5 renderer registered before a priority-10 one, both accepting
\* the part, and the lookup returned the priority-10 one
LookupRespectsPriorityWitness ==
  /\ lookedUp # None
  /\ Len(renderers) = 2
  /\ renderers[1].priority = Some(5)
  /\ renderers[2].priority = Some(10)
  /\ canRender(renderers[1], Val(lookedUp).part)
  /\ canRender(renderers[2], Val(lookedUp).part)
  /\ Val(lookedUp).renderer = Some(renderers[2])

(***************************************************************************)
(* The registry with its calls recorded.  registrationLog.latest holds the *)
(* entries now registered in the order of the register calls that passed   *)
(* them; registrationLog.first holds the registered keys in the order in   *)
(* which they entered the registry since they were last absent;            *)
(* registrationLog.erased holds the key that the last call removed, if the *)
(* last call was an unregister of a registered key.                        *)
(***************************************************************************)
logRegister(log, renderer) ==
  [latest |-> Append(SelectSeq(log.latest, LAMBDA r : r.type # renderer.type), renderer),
   first  |-> IF \E k \in 1..Len(log.first) : log.first[k] = renderer.type
                THEN log.first
                ELSE Append(log.first, renderer.type),
   erased |-> None]

logUnregister(log, type) ==
  [latest |-> SelectSeq(log.latest, LAMBDA r : r.type # type),
   first  |-> SelectSeq(log.first, LAMBDA t : t # type),
   erased |-> IF \E k \in 1..Len(log.first) : log.first[k] = type
                THEN Some(type)
                ELSE log.erased]

\* priorities that tie: a missing priority counts as 0
TiePriorities == {None, Some(0), Some(5)}

TieShapes ==
  {MkRenderer(type, priority, predicate) :
     type \in RendererTypes, priority \in TiePriorities,
     predicate \in {"isToolPart", "isWeatherTool"}}

\* RendererRegistry.register, the call recorded
registerRecorded ==
  /\ \E renderer \in TieShapes :
       /\ renderers' = mapSet(renderers, renderer)
       /\ sortedRenderers' = updateSortedRenderers(mapSet(renderers, renderer))
       /\ registrationLog' = logRegister(registrationLog, renderer)
  /\ lookedUp' = None
  /\ UNCHANGED <<histVars, textVars, chatVars>>

\* a plausible slip: unregister deletes the key and leaves the sorted view as
\* it was
unregisterRecordedStale ==
  /\ \E type \in RendererTypes :
       /\ renderers' = mapDelete(renderers, type)
       /\ registrationLog' = logUnregister(registrationLog, type)
  /\ lookedUp' = None
  /\ UNCHANGED <<sortedRenderers, histVars, textVars, chatVars>>

\* RendererRegistry.unregister, the call recorded
unregisterRecorded ==
  /\ \E type \in RendererTypes :
       /\ renderers' = mapDelete(renderers, type)
       /\ sortedRenderers' = updateSortedRenderers(mapDelete(renderers, type))
       /\ registrationLog' = logUnregister(registrationLog, type)
  /\ lookedUp' = None
  /\ UNCHANGED <<histVars, textVars, chatVars>>

RecordedNext == registerRecorded \/ unregisterRecorded \/ getRenderer

SpecRecorded == RegistryInit /\ [][RecordedNext]_vars

\* the registered renderers accepting the part that have the highest priority
TopAccepting(part) ==
  {r \in Accepting(part) : \A other \in Accepting(part) : Rank(r) >= Rank(other)}

\* position of the register call that passed the entry now held for r's key
LatestCall(r) ==
  CHOOSE k \in 1..Len(registrationLog.latest) : registrationLog.latest[k].type = r.type

\* position at which r's key entered the registry
FirstCall(r) ==
  CHOOSE k \in 1..Len(registrationLog.first) : registrationLog.first[k] = r.type

\* C11 as stated: among the registered renderers that accept the part and share
\* the highest priority, getRenderer returns the one whose currently held entry
\* was passed to register earliest, also after a key was registered again.
TieBrokenByLatestRegistration ==
  lookedUp # None =>
    LET part == Val(lookedUp).part
        found == Val(lookedUp).renderer
    IN  TopAccepting(part) # {} =>
          /\ found # None
          /\ Val(found) \in TopAccepting(part)
          /\ \A other \in TopAccepting(part) : LatestCall(Val(found)) <= LatestCall(other)

\* C11 amended: among the registered renderers that accept the part and share
\* the highest priority, getRenderer returns the one whose key entered the
\* registry earliest; registering a key that is already registered replaces
\* its entry and keeps the key's place, unregistering it gives the place up.
TieBrokenByKeyInsertion ==
  lookedUp # None =>
    LET part == Val(lookedUp).part
        found == Val(lookedUp).renderer
    IN  TopAccepting(part) # {} =>
          /\ found # None
          /\ Val(found) \in TopAccepting(part)
          /\ \A other \in TopAccepting(part) : FirstCall(Val(found)) <= FirstCall(other)

\* "tool" was registered, then "tool-call" with an equal priority, then "tool"
\* again; both accept the part and the lookup returned the entry held for "tool"
TieBrokenByKeyInsertionWitness ==
  /\ lookedUp # None
  /\ registrationLog.first = <<"tool", "tool-call">>
  /\ Len(registrationLog.latest) = 2
  /\ registrationLog.latest[1].type = "tool-call"
  /\ registrationLog.latest[2].type = "tool"
  /\ Cardinality(TopAccepting(Val(lookedUp).part)) = 2
  /\ Val(lookedUp).renderer = Some(registrationLog.latest[2])

\* C12: a lookup changes neither the map of registered renderers nor its
\* sorted view, and a lookup of the same part directly after another one, with
\* no register or unregister in between, returns the same renderer.
LookupIsPure ==
  [][lookedUp' # None =>
       /\ renderers' = renderers
       /\ sortedRenderers' = sortedRenderers
       /\ (lookedUp # None /\ Val(lookedUp').part = Val(lookedUp).part)
            => Val(lookedUp').renderer = Val(lookedUp).renderer]_vars

\* a lookup over three registered renderers that returned one that is not the
\* first of the sorted view
LookupIsPureWitness ==
  /\ lookedUp # None
  /\ Len(sortedRenderers) = 3
  /\ Val(lookedUp).renderer = Some(sortedRenderers[3])

\* C13: the registry holds at most one entry per type key, the entry held for
\* a key is the one passed to the most recent register call for it, and the
\* sorted view holds exactly the entries of the map, in non-increasing order
\* of priority.
RegisterReplacesByKey ==
  /\ \A i, j \in 1..Len(renderers) : renderers[i].type = renderers[j].type => i = j
  /\ Len(renderers) = Len(registrationLog.latest)
  /\ Registered = {registrationLog.latest[k] : k \in 1..Len(registrationLog.latest)}
  /\ Len(sortedRenderers) = Len(renderers)
  /\ {sortedRenderers[k] : k \in 1..Len(sortedRenderers)} = Registered
  /\ \A k \in 1..(Len(sortedRenderers) - 1) :
       Rank(sortedRenderers[k]) >= Rank(sortedRenderers[k + 1])

\* three keys are registered, the key that entered first was registered again
\* after the two others, and the map's order is not the order of the priorities
RegisterReplacesByKeyWitness ==
  /\ Len(renderers) = 3
  /\ registrationLog.latest[3].type = registrationLog.first[1]
  /\ Rank(renderers[1]) < Rank(renderers[2])
  /\ Rank(renderers[3]) < Rank(renderers[2])

RegisteredKeys == {renderers[k].type : k \in 1..Len(renderers)}

Without(entries, type) == SelectSeq(entries, LAMBDA r : r.type # type)

\* C14: unregistering a key leaves the registry as if the key had never been
\* registered: registering an entry under a key that is not registered and
\* unregistering that key gives back the map and the sorted view (so every
\* lookup) of before; an unregister of a registered key takes exactly that
\* key's entry out of the map and of the sorted view and every lookup returns
\* what it returns over the other entries alone; unregistering a key that is
\* not registered changes nothing.
UnregisterErases ==
  /\ [](\A renderer \in TieShapes :
          renderer.type \notin RegisteredKeys =>
            LET erased == mapDelete(mapSet(renderers, renderer), renderer.type)
            IN  /\ erased = renderers
                /\ updateSortedRenderers(erased) = sortedRenderers)
  /\ [](\A type \in RendererTypes :
          type \notin RegisteredKeys =>
            /\ mapDelete(renderers, type) = renderers
            /\ updateSortedRenderers(mapDelete(renderers, type)) = sortedRenderers)
  /\ [][Len(renderers') < Len(renderers) =>
          \E type \in RegisteredKeys :
            /\ registrationLog'.erased = Some(type)
            /\ renderers' = Without(renderers, type)
            /\ sortedRenderers' = Without(sortedRenderers, type)
            /\ \A part \in LookupParts :
                 firstMatch(sortedRenderers', part)
                   = firstMatch(Without(sortedRenderers, type), part)]_vars

\* "tool" was unregistered while two other keys stay registered, and a lookup
\* made after that returned a renderer
UnregisterErasesWitness ==
  /\ registrationLog.erased = Some("tool")
  /\ Len(renderers) = 2
  /\ lookedUp # None
  /\ Val(lookedUp).renderer # None

(***************************************************************************)
(* The registry holding the default renderers of renderers/index.ts        *)
(***************************************************************************)
\* rendererRegistry.register(...), six calls in this order
DefaultRegistrations ==
  <<textRenderer, reasoningRenderer, networkRenderer, toolRenderer, dynamicToolRenderer,
    weatherRenderer>>

DefaultRenderers == {DefaultRegistrations[k] : k \in 1..Len(DefaultRegistrations)}

\* the type guards of types.ts by name
Classifiers ==
  {"isTextPart", "isReasoningPart", "isNetworkPart", "isSourceUrlPart", "isSourcePart",
   "isDynamicToolPart", "isToolPart"}

classifies(classifier, part) ==
  CASE classifier = "isTextPart" -> isTextPart(part)
    [] classifier = "isReasoningPart" -> isReasoningPart(part)
    [] classifier = "isNetworkPart" -> isNetworkPart(part)
    [] classifier = "isSourceUrlPart" -> isSourceUrlPart(part)
    [] classifier = "isSourcePart" -> isSourcePart(part)
    [] classifier = "isDynamicToolPart" -> isDynamicToolPart(part)
    [] classifier = "isToolPart" -> isToolPart(part)

\* the type guard ends in an exception
classifierThrows(classifier, part) == classifier = "isToolPart" /\ isToolPartThrows(part)

SourcePart == MkPart(SOURCE, None, None)

\* parts of every kind the default renderers know, parts no renderer is made
\* for, and parts whose type is the empty string, missing, or not a string
AnyParts ==
  {TextOf(DONE), ReasoningPart, NetworkPart(<< >>), DynamicToolPart, SearchCall, WeatherCall,
   SourceUrlPart, SourcePart,
   MkPart(TEXT, None, None),
   MkPart(<< >>, Some(DONE), None),
   MkPart(UNDEFINED, Some(DONE), None),
   MkPart(A_NUMBER, None, None),
   [MkPart(UNDEFINED, None, None) EXCEPT !.toolName = Some("weatherTool")]}

\* rendererRegistry.register of a default renderer
registerDefault ==
  /\ \E renderer \in DefaultRenderers :
       /\ renderers' = mapSet(renderers, renderer)
       /\ sortedRenderers' = updateSortedRenderers(mapSet(renderers, renderer))
  /\ lookedUp' = None
  /\ UNCHANGED <<registrationLog, histVars, textVars, chatVars>>

\* rendererRegistry.unregister of a default renderer's key
unregisterDefault ==
  /\ \E renderer \in DefaultRenderers :
       /\ renderers' = mapDelete(renderers, renderer.type)
       /\ sortedRenderers' = updateSortedRenderers(mapDelete(renderers, renderer.type))
  /\ lookedUp' = None
  /\ UNCHANGED <<registrationLog, histVars, textVars, chatVars>>

\* rendererRegistry.getRenderer, as MessagePartRenderer calls it for whatever
\* part a message holds
getRendererOfAnyPart ==
  /\ \E part \in AnyParts : lookedUp' = Some(lookup(sortedRenderers, part))
  /\ UNCHANGED <<renderers, sortedRenderers, registrationLog, histVars, textVars, chatVars>>

DefaultsNext == registerDefault \/ unregisterDefault \/ getRendererOfAnyPart

SpecDefaults == RegistryInit /\ [][DefaultsNext]_vars

\* C15: for a part whose type is a string and that no registered renderer
\* accepts, getRenderer returns null and does not throw: so for a source or
\* source-url part whichever default renderers are registered, and for any part
\* when the registry is empty.
NoRendererIsNull ==
  lookedUp # None =>
    LET part == Val(lookedUp).part
        nothingFound == Val(lookedUp).renderer = None /\ ~Val(lookedUp).threw
    IN  /\ (IsString(part.type) /\ Accepting(part) = {}) => nothingFound
        /\ part.type \in {SOURCE, SOURCE_URL} => nothingFound
        /\ renderers = << >> => nothingFound

\* the six default renderers are registered as index.ts registers them and
\* the lookup of a source-url part returned null
NoRendererIsNullWitness ==
  /\ renderers = DefaultRegistrations
  /\ lookedUp # None
  /\ Val(lookedUp).part.type = SOURCE_URL
  /\ Val(lookedUp).renderer = None
  /\ ~Val(lookedUp).threw

\* the part's type is missing, not a string, or the empty string
Malformed(part) == ~IsString(part.type) \/ part.type = << >>

\* C16: for a part whose type is absent or not a non-empty string, every type
\* guard and the lookup over the registered default renderers complete without
\* throwing, no type guard recognises the part and the lookup returns null.
MalformedNeverThrows ==
  (lookedUp # None /\ Malformed(Val(lookedUp).part)) =>
    /\ ~Val(lookedUp).threw
    /\ Val(lookedUp).renderer = None
    /\ \A classifier \in Classifiers :
         /\ ~classifierThrows(classifier, Val(lookedUp).part)
         /\ ~classifies(classifier, Val(lookedUp).part)

(***************************************************************************)
(* hooks/use-sources-extractor.ts.  A source list is null (<< >>) or       *)
(* <<list>>, so that null and the empty list are different values.  Of the *)
(* optional fields title, description and lastUpdated, all copied the same *)
(* way, the model keeps title.                                             *)
(***************************************************************************)
MkSource(url, title) == [url |-> url, title |-> title]

\* x || undefined
orUndefined(o) == IF Truthy(o) THEN o ELSE None

\* what the loop body pushes for one part: nothing or one source
pushedForPart(p) ==
  IF p.type = SOURCE_URL
    THEN IF Truthy(p.url) THEN <<MkSource(Val(p.url), orUndefined(p.title))>> ELSE << >>
    ELSE IF p.type = SOURCE
      THEN LET sourceData == IF IsSome(p.source) THEN Val(p.source) ELSE p
           IN  IF Truthy(sourceData.url)
                 THEN <<MkSource(Val(sourceData.url), orUndefined(sourceData.title))>>
                 ELSE << >>
      ELSE << >>

RECURSIVE pushedForParts(_)
pushedForParts(parts) ==
  IF parts = << >> THEN << >> ELSE pushedForPart(Head(parts)) \o pushedForParts(Tail(parts))

RECURSIVE dedupedByUrl(_, _)
dedupedByUrl(kept, rest) ==
  IF rest = << >> THEN kept
  ELSE IF \E k \in 1..Len(kept) : kept[k].url = Head(rest).url
    THEN dedupedByUrl(kept, Tail(rest))
    ELSE dedupedByUrl(Append(kept, Head(rest)), Tail(rest))

\* a plausible variant: a url that was already pushed is not pushed again
useSourcesExtractorDeduped(parts) ==
  IF Len(pushedForParts(parts)) > 0 THEN Some(dedupedByUrl(<< >>, pushedForParts(parts))) ELSE None

\* a plausible slip: the list is returned also when it is empty
useSourcesExtractorNeverNull(parts) == Some(pushedForParts(parts))

\* sources.length > 0 ? sources : null
useSourcesExtractor(parts) ==
  IF Len(pushedForParts(parts)) > 0 THEN Some(pushedForParts(parts)) ELSE None

\* steps.find(step => step.name === 'web-search' && step.output), then its
\* output.sources when that is a non-empty list
useNetworkSources(networkData) ==
  IF ~IsSome(networkData) \/ ~IsSome(Val(networkData).steps) THEN None
  ELSE LET steps == Val(Val(networkData).steps)
           isWebSearch(k) == steps[k].name = "web-search" /\ IsSome(steps[k].output)
       IN  IF ~\E k \in 1..Len(steps) : isWebSearch(k) THEN None
           ELSE LET first == CHOOSE k \in 1..Len(steps) :
                               isWebSearch(k) /\ \A j \in 1..(k - 1) : ~isWebSearch(j)
                    output == Val(steps[first].output)
                IN  IF IsSome(output.sources) /\ Len(Val(output.sources)) > 0
                      THEN output.sources
                      ELSE None

URL_A == <<"a">>

URL_B == <<"b">>

MkSourceCarrier(type, url, title, source) ==
  [type |-> type, url |-> url, title |-> title, source |-> source]

\* source-url and source parts with a url, without one and with an empty one,
\* a source part whose nested source has no url, and a part of another kind
SourceCarriers ==
  { MkSourceCarrier(SOURCE_URL, Some(URL_A), Some(<<"T">>), None),
    MkSourceCarrier(SOURCE_URL, Some(URL_B), Some(<< >>), None),
    MkSourceCarrier(SOURCE_URL, None, None, None),
    MkSourceCarrier(SOURCE_URL, Some(<< >>), None, None),
    MkSourceCarrier(SOURCE, None, None, Some(MkSource(Some(URL_A), None))),
    MkSourceCarrier(SOURCE, Some(URL_B), Some(<<"T">>), None),
    MkSourceCarrier(SOURCE, Some(URL_A), None, Some(MkSource(None, None))),
    MkSourceCarrier(TEXT, None, None, None) }

MkNetworkStep(name, output) == [name |-> name, output |-> output]

\* network data: missing, without steps, and with web-search steps whose
\* output is missing, has no sources, an empty list of them, or one source
NetworkDatas ==
  { None,
    Some([steps |-> None]),
    Some([steps |-> Some(<<MkNetworkStep("routing-step", Some([sources |-> None]))>>)]),
    Some([steps |-> Some(<<MkNetworkStep("web-search", None)>>)]),
    Some([steps |-> Some(<<MkNetworkStep("web-search", Some([sources |-> None]))>>)]),
    Some([steps |-> Some(<<MkNetworkStep("web-search", Some([sources |-> Some(<< >>)]))>>)]),
    Some([steps |-> Some(<<MkNetworkStep("web-search", None),
                           MkNetworkStep("web-search",
                                         Some([sources |-> Some(<<MkSource(URL_A, None)>>)]))>>)]),
    Some([steps |-> Some(<<MkNetworkStep("web-search", Some([sources |-> Some(<< >>)])),
                           MkNetworkStep("web-search",
                                         Some([sources |-> Some(<<MkSource(URL_B, None)>>)]))>>)]) }

\* the message has no part yet and no network data
SourcesInit ==
  /\ allParts = << >>
  /\ webSources = useSourcesExtractor(<< >>)
  /\ networkSources = useNetworkSources(None)
  /\ partText = << >>
  /\ textDeltas = 0
  /\ parsed = None
  /\ rendered = None
  /\ resolvedMessages = << >>
  /\ displayableMessages = << >>
  /\ pc = "idle"
  /\ renderers = << >>
  /\ sortedRenderers = << >>
  /\ lookedUp = None
  /\ registrationLog = NoLog
  /\ chatStatus = "ready"
  /\ isLast = TRUE
  /\ prevProps = << >>
  /\ displayed = << >>
  /\ isNewChat = FALSE
  /\ initialMessage = << >>
  /\ messagesLength = 0
  /\ initialMessageSentRef = FALSE
  /\ prevStatusRef = "ready"
  /\ sendMessageCalls = 0
  /\ invalidations = 0
  /\ inFlight = {}
  /\ threadId = << >>
  /\ listMessages = << >>
  /\ queryResult = << >>

\* one more part of the message arrives and the hook runs on the new list
PartArrives ==
  /\ Len(allParts) < MaxSourceParts
  /\ \E p \in SourceCarriers :
       /\ allParts' = Append(allParts, p)
       /\ webSources' = useSourcesExtractor(Append(allParts, p))
  /\ UNCHANGED <<networkSources, partText, textDeltas, parsed, rendered, histVars, regVars, chatVars>>

\* the network data changes and the hook runs on it
NetworkDataArrives ==
  /\ \E networkData \in NetworkDatas : networkSources' = useNetworkSources(networkData)
  /\ UNCHANGED <<allParts, webSources, partText, textDeltas, parsed, rendered, histVars, regVars, chatVars>>

SourcesNext == PartArrives \/ NetworkDataArrives

SpecSources == SourcesInit /\ [][SourcesNext]_vars

(***************************************************************************)
(* Properties of source extraction                                         *)
(***************************************************************************)
HasUrl(holder) == holder.url \notin {None, Some(<< >>)}

\* the part is a source-url or source part carrying a non-empty url (a source
\* part carries it in its nested source when it has one)
Yields(p) ==
  \/ p.type = SOURCE_URL /\ HasUrl(p)
  \/ p.type = SOURCE /\ IF p.source # None THEN HasUrl(Val(p.source)) ELSE HasUrl(p)

UrlOf(p) == IF p.type = SOURCE /\ p.source # None THEN Val(Val(p.source).url) ELSE Val(p.url)

\* the urls of the parts that yield a source, in part order
YieldedUrls ==
  LET yielding == SelectSeq(allParts, Yields)
  IN  [k \in 1..Len(yielding) |-> UrlOf(yielding[k])]

\* the urls of the extracted list (none when it is null)
ExtractedUrls ==
  IF webSources = None THEN << >>
  ELSE [k \in 1..Len(Val(webSources)) |-> Val(webSources)[k].url]

FirstAt(urls, url) == CHOOSE k \in 1..Len(urls) : urls[k] = url /\ \A j \in 1..(k - 1) : urls[j] # url

DIGITS == <<"0", "1", "2", "3", "4", "5", "6", "7", "8", "9">>

\* \d
isDigit(c) == \E n \in 1..10 : DIGITS[n] = c

\* the length of the match of /\[\d+\]/ that starts at position i of s, 0 when
\* there is none: "[", the longest run of digits, which must not be empty, "]"
matchLengthAt(s, i) ==
  IF s[i] # "[" THEN 0
  ELSE LET run == CHOOSE d \in 0..(Len(s) - i) :
                    /\ \A k \in 1..d : isDigit(s[i + k])
                    /\ (i + d + 1 <= Len(s) => ~isDigit(s[i + d + 1]))
       IN  IF run >= 1 /\ i + run + 1 <= Len(s) /\ s[i + run + 1] = "]" THEN run + 2 ELSE 0

\* the position of the leftmost match at or after position from, 0 when none
matchFrom(s, from) ==
  IF \E k \in from..Len(s) : matchLengthAt(s, k) > 0
    THEN CHOOSE k \in from..Len(s) :
           matchLengthAt(s, k) > 0 /\ \A j \in from..(k - 1) : matchLengthAt(s, j) = 0
    ELSE 0

\* a plausible slip: the pattern has no capture group, so split drops the
\* markers
RECURSIVE splitDroppingMarkers(_, _)
splitDroppingMarkers(s, from) ==
  LET k == matchFrom(s, from)
  IN  IF k = 0 THEN <<SubSeq(s, from, Len(s))>>
      ELSE <<SubSeq(s, from, k - 1)>> \o splitDroppingMarkers(s, k + matchLengthAt(s, k))

\* text.split(/(\[\d+\])/) from position from on: the text before each match,
\* the match (the capture group), and the rest after the last match
RECURSIVE split(_, _)
split(s, from) ==
  LET k == matchFrom(s, from)
  IN  IF k = 0 THEN <<SubSeq(s, from, Len(s))>>
      ELSE <<SubSeq(s, from, k - 1), SubSeq(s, k, k + matchLengthAt(s, k) - 1)>>
             \o split(s, k + matchLengthAt(s, k))

\* Number.parseInt(digits, 10) of a run of digits
RECURSIVE parseInt(_)
parseInt(digits) ==
  IF digits = << >> THEN 0
  ELSE 10 * parseInt(SubSeq(digits, 1, Len(digits) - 1))
         + (CHOOSE n \in 0..9 : DIGITS[n + 1] = digits[Len(digits)])

\* a plausible slip: a number past the end of the list resolves to the last
\* source
sourceAtClamped(sources, citationNumber) ==
  IF citationNumber < 0 THEN None
  ELSE IF citationNumber >= Len(sources) THEN Some(sources[Len(sources)])
  ELSE Some(sources[citationNumber + 1])

\* sources[citationNumber] || null, citationNumber counting from 0
sourceAt(sources, citationNumber) ==
  IF citationNumber >= 0 /\ citationNumber < Len(sources)
    THEN Some(sources[citationNumber + 1])
    ELSE None

\* the forEach over the segments from the one at 1-based position k on: a
\* citation for each segment holding a match, index counting from 0
RECURSIVE citationsFrom(_, _, _)
citationsFrom(segments, k, sources) ==
  IF k > Len(segments) THEN << >>
  ELSE LET at == matchFrom(segments[k], 1)
       IN  IF at = 0 THEN citationsFrom(segments, k + 1, sources)
           ELSE LET digits == SubSeq(segments[k], at + 1, at + matchLengthAt(segments[k], at) - 2)
                    citationNumber == parseInt(digits) - 1
                IN  <<[index |-> k - 1,
                       number |-> citationNumber + 1,
                       source |-> sourceAt(sources, citationNumber)]>>
                      \o citationsFrom(segments, k + 1, sources)

useTextWithCitations(t, sources) ==
  IF matchFrom(t, 1) = 0 \/ sources = None \/ Len(Val(sources)) = 0
    THEN [hasCitations |-> FALSE, segments |-> <<t>>, citations |-> << >>]
    ELSE [hasCitations |-> TRUE,
          segments |-> split(t, 1),
          citations |-> citationsFrom(split(t, 1), 1, Val(sources))]

\* text-renderer.tsx isDuplicateReasoning: while the last message streams, the
\* a duplicate check that forgets the streaming and last-message guard
isDuplicateReasoningUnguarded(t, parts, isStreaming, isLastMessage) ==
  \E k \in 1..Len(parts) :
    /\ parts[k].type = DATA_NETWORK
    /\ IsSome(parts[k].data)
    /\ IsSome(Val(parts[k].data).steps)
    /\ \E i \in 1..Len(Val(Val(parts[k].data).steps)) :
         LET step == Val(Val(parts[k].data).steps)[i]
         IN  IsSome(step.task) /\ Val(step.task).reason = Some(t)

\* text equals the first truthy task.reason of the first data-network part
isDuplicateReasoning(t, parts, isStreaming, isLastMessage) ==
  /\ isStreaming
  /\ isLastMessage
  /\ \E k \in 1..Len(parts) : parts[k].type = DATA_NETWORK
  /\ LET networkPart == parts[CHOOSE k \in 1..Len(parts) :
                                /\ parts[k].type = DATA_NETWORK
                                /\ \A j \in 1..(k - 1) : parts[j].type # DATA_NETWORK]
         steps == IF IsSome(networkPart.data) /\ IsSome(Val(networkPart.data).steps)
                    THEN Val(Val(networkPart.data).steps)
                    ELSE << >>
         hasReason(step) == IsSome(step.task) /\ Truthy(Val(step.task).reason)
     IN  /\ \E k \in 1..Len(steps) : hasReason(steps[k])
         /\ t = Val(Val(steps[CHOOSE k \in 1..Len(steps) :
                                /\ hasReason(steps[k])
                                /\ \A j \in 1..(k - 1) : ~hasReason(steps[j])].task).reason)

\* segments.map of the text renderer: an inline citation for a segment whose
\* citation has a source, the segment in a span otherwise
renderSegments(result) ==
  [k \in 1..Len(result.segments) |->
     LET cited == {c \in 1..Len(result.citations) : result.citations[c].index = k - 1}
         citation == result.citations[CHOOSE c \in cited : \A d \in cited : c <= d]
     IN  IF cited # {} /\ citation.source # None
           THEN [tag |-> "InlineCitation", source |-> citation.source, text |-> << >>]
           ELSE [tag |-> "span", source |-> None, text |-> result.segments[k]]]

\* TextRendererComponent: the hook results it computed (none when it returned
\* before the hooks) and the element it returned (null, the text as one
\* response, or the segments followed by the list of sources)
TextRendererComponent(t, parts, isStreaming, isLastMessage) ==
  IF t = << >> \/ Trim(t) = << >> \/ isDuplicateReasoning(t, parts, isStreaming, isLastMessage)
    THEN [webSources |-> None, parsed |-> None, rendered |-> None]
    ELSE LET sources == useSourcesExtractor(parts)
             result == useTextWithCitations(t, sources)
         IN  [webSources |-> sources,
              parsed |-> Some(result),
              rendered |->
                IF result.hasCitations /\ sources # None /\ Len(Val(sources)) > 0
                  THEN Some([tag |-> "citations", children |-> renderSegments(result),
                             sources |-> sources])
                  ELSE Some([tag |-> "MessageResponse", children |-> <<t>>, sources |-> None])]

SEE == <<"S", "e", "e", " ">>

AND == <<" ", "a", "n", "d", " ">>

\* what a text delta can carry: words, whole markers, and pieces from which
\* "[0]", "[10]", "[110]" and unfinished markers are put together
Chunks ==
  {SEE, AND, <<"[", "1", "]">>, <<"[", "2", "]">>, <<"[", "2", "]", ".">>, <<"[">>, <<"1">>,
   <<"0", "]">>}

\* the message's parts next to the text: no source, the source x, the
\* sources x and y
CitedParts ==
  LET x == MkSourceCarrier(SOURCE_URL, Some(<<"x">>), Some(<<"X">>), None)
      y == MkSourceCarrier(SOURCE, None, None, Some(MkSource(Some(<<"y">>), None)))
  IN  {<< >>, <<x>>, <<x, y>>}

\* the text part is mounted with an empty text: the component returns null
\* before any hook
CitationsInit ==
  /\ allParts \in CitedParts
  /\ partText = << >>
  /\ textDeltas = 0
  /\ webSources = None
  /\ parsed = None
  /\ rendered = None
  /\ networkSources = None
  /\ resolvedMessages = << >>
  /\ displayableMessages = << >>
  /\ pc = "idle"
  /\ renderers = << >>
  /\ sortedRenderers = << >>
  /\ lookedUp = None
  /\ registrationLog = NoLog
  /\ chatStatus = "ready"
  /\ isLast = TRUE
  /\ prevProps = << >>
  /\ displayed = << >>
  /\ isNewChat = FALSE
  /\ initialMessage = << >>
  /\ messagesLength = 0
  /\ initialMessageSentRef = FALSE
  /\ prevStatusRef = "ready"
  /\ sendMessageCalls = 0
  /\ invalidations = 0
  /\ inFlight = {}
  /\ threadId = << >>
  /\ listMessages = << >>
  /\ queryResult = << >>

\* a text delta of the streaming last message arrives and the text renderer
\* renders the longer text
TextDelta ==
  /\ textDeltas < MaxChunks
  /\ \E chunk \in Chunks :
       LET view == TextRendererComponent(partText \o chunk, allParts, TRUE, TRUE)
       IN  /\ partText' = partText \o chunk
           /\ webSources' = view.webSources
           /\ parsed' = view.parsed
           /\ rendered' = view.rendered
  /\ textDeltas' = textDeltas + 1
  /\ UNCHANGED <<allParts, networkSources, histVars, regVars, chatVars>>

CitationsNext == TextDelta

SpecCitations == CitationsInit /\ [][CitationsNext]_vars

(***************************************************************************)
(* Properties of citation parsing                                          *)
(***************************************************************************)
RECURSIVE Flatten(_)
Flatten(seqs) == IF seqs = << >> THEN << >> ELSE Head(seqs) \o Flatten(Tail(seqs))

\* "[", one digit or more, "]"
IsMarker(seg) ==
  /\ Len(seg) >= 3
  /\ seg[1] = "["
  /\ seg[Len(seg)] = "]"
  /\ \A k \in 2..(Len(seg) - 1) : seg[k] \in {"0", "1", "2", "3", "4", "5", "6", "7", "8", "9"}

\* the markers of the text, as the places where they start and end
MarkersOf(chars) ==
  {place \in (1..Len(chars)) \X (1..Len(chars)) :
     place[1] <= place[2] /\ IsMarker(SubSeq(chars, place[1], place[2]))}

\* the number a marker names
NumberOf(marker) == parseInt(SubSeq(marker, 2, Len(marker) - 1))

SourcesGiven == IF webSources = None THEN << >> ELSE Val(webSources)

\* C19: for a text holding [N] markers and a non-empty source list, the
\* segments put together are the text, literal and marker segments alternate
\* so that the k-th marker is the segment at the odd 0-based index 2k-1, and
\* there is exactly one citation per marker, in order, whose index is that
\* position, whose number is N and whose source is the N-th source when there
\* is one; "See [1] and [2]." with the sources x, y gives the segments "See ",
\* "[1]", " and ", "[2]", "." and citations at 1 and 3 for x and y.
CitationsParsed ==
  (MarkersOf(partText) # {} /\ SourcesGiven # << >>) =>
    /\ parsed # None
    /\ LET segments == Val(parsed).segments
           citations == Val(parsed).citations
       IN  /\ Val(parsed).hasCitations
           /\ Flatten(segments) = partText
           /\ Len(segments) = 2 * Cardinality(MarkersOf(partText)) + 1
           /\ \A k \in 1..Len(segments) :
                IF k % 2 = 0 THEN IsMarker(segments[k]) ELSE MarkersOf(segments[k]) = {}
           /\ Len(citations) = Cardinality(MarkersOf(partText))
           /\ \A k \in 1..Len(citations) :
                /\ citations[k].index = 2 * k - 1
                /\ citations[k].number = NumberOf(segments[2 * k])
                /\ citations[k].source =
                     IF NumberOf(segments[2 * k]) \in 1..Len(SourcesGiven)
                       THEN Some(SourcesGiven[NumberOf(segments[2 * k])])
                       ELSE None
           /\ (partText = SEE \o <<"[", "1", "]">> \o AND \o <<"[", "2", "]", ".">>
                 /\ Len(SourcesGiven) = 2) =>
                /\ segments = <<SEE, <<"[", "1", "]">>, AND, <<"[", "2", "]">>, <<".">>>>
                /\ citations = <<[index |-> 1, number |-> 1, source |-> Some(SourcesGiven[1])],
                                 [index |-> 3, number |-> 2, source |-> Some(SourcesGiven[2])]>>

\* "See [1] and [2]." was parsed against two sources
CitationsParsedWitness ==
  /\ partText = SEE \o <<"[", "1", "]">> \o AND \o <<"[", "2", "]", ".">>
  /\ Len(SourcesGiven) = 2
  /\ parsed # None
  /\ Len(Val(parsed).citations) = 2

\* the marker has a citation without a source, is a segment as it stands in
\* the text, and is rendered as that segment in a span
ShownAsPlainText(marker) ==
  /\ parsed # None
  /\ rendered # None
  /\ \E c \in 1..Len(Val(parsed).citations) :
       LET citation == Val(parsed).citations[c]
       IN  /\ citation.number = NumberOf(marker)
           /\ citation.source = None
           /\ Val(parsed).segments[citation.index + 1] = marker
           /\ Val(rendered).tag = "citations"
           /\ Val(rendered).children[citation.index + 1]
                = [tag |-> "span", source |-> None, text |-> marker]

\* the markers of the text whose number is below 1 or above the number of
\* sources
OutOfRange ==
  {SubSeq(partText, place[1], place[2]) : place \in MarkersOf(partText)}
    \ {marker \in {SubSeq(partText, place[1], place[2]) : place \in MarkersOf(partText)} :
         NumberOf(marker) \in 1..Len(SourcesGiven)}

\* C20 as stated: a marker [N] with N < 1 or N above the number of sources
\* has a citation whose source is null, stays in the segment list as it is,
\* and is rendered as plain text, whatever the number of sources.
OutOfRangeCitationIsNull == \A marker \in OutOfRange : ShownAsPlainText(marker)

\* C20 amended: when there is a source, a marker [N] with N < 1 or N above the
\* number of sources has a citation whose source is null, stays in the segment
\* list as it is, and is rendered as plain text; when there is no source the
\* text has no citation at all, is its own single segment and is rendered
\* whole.
OutOfRangeCitationIsNullGivenSources ==
  /\ SourcesGiven # << >> => \A marker \in OutOfRange : ShownAsPlainText(marker)
  /\ (SourcesGiven = << >> /\ parsed # None) =>
       /\ Val(parsed).citations = << >>
       /\ Val(parsed).segments = <<partText>>
       /\ Val(rendered).tag = "MessageResponse"
       /\ Val(rendered).children = <<partText>>

\* "See [0][2]" rendered with one source
OutOfRangeCitationIsNullGivenSourcesWitness ==
  /\ partText = SEE \o <<"[", "0", "]">> \o <<"[", "2", "]">>
  /\ Len(SourcesGiven) = 1
  /\ rendered # None
  /\ Val(rendered).tag = "citations"
  /\ Val(rendered).children[2].tag = "span"
  /\ Val(rendered).children[4].tag = "span"


(***************************************************************************)
(* hooks/use-network-data.ts, components/chat/renderers/network-renderer   *)
(* and reasoning-renderer, components/chat/message-part-renderer.tsx and   *)
(* components/chat/organisms/memoized-message.tsx: what one message of the *)
(* conversation shows.  A rendered element is a record of its tag, its key *)
(* and its content; a component that returns null yields None.             *)
(***************************************************************************)
MaxViewParts == 2

\* key is the React key (None when the JSX gives none), isStreaming the
\* element's isStreaming prop (FALSE when it has none)
Element(tag, key, isStreaming, content) ==
  [tag |-> tag, key |-> key, isStreaming |-> isStreaming, content |-> content]

\* steps.find(s => s.task) : a find that forgets to look at the reason
findStepWithAnyTask(steps) ==
  IF \E k \in 1..Len(steps) : IsSome(steps[k].task)
    THEN CHOOSE k \in 1..Len(steps) :
           /\ IsSome(steps[k].task)
           /\ \A j \in 1..(k - 1) : ~IsSome(steps[j].task)
    ELSE 0

\* steps.find(s => s.task?.reason) : the position of the first step whose
\* task has a truthy reason, 0 when find returns undefined
findStepWithTask(steps) ==
  LET hasReason(k) == IsSome(steps[k].task) /\ Truthy(Val(steps[k].task).reason)
  IN  IF \E k \in 1..Len(steps) : hasReason(k)
        THEN CHOOSE k \in 1..Len(steps) : hasReason(k) /\ \A j \in 1..(k - 1) : ~hasReason(j)
        ELSE 0

\* stepWithTask?.task?.reason || null
reasonOf(steps) ==
  LET k == findStepWithTask(steps)
  IN  IF k = 0 \/ ~IsSome(steps[k].task) THEN None
      ELSE IF Truthy(Val(steps[k].task).reason) THEN Val(steps[k].task).reason ELSE None

\* String(networkData.output) of an output that is a string
String(output) == output

useNetworkData(networkData) ==
  IF ~IsSome(networkData)
    THEN [reasoning |-> None, sources |-> None, hasOutput |-> FALSE, output |-> None]
    ELSE LET data == Val(networkData)
             hasOutput == IsSome(data.output)
         IN  [reasoning |-> IF IsSome(data.steps) THEN reasonOf(Val(data.steps)) ELSE None,
              sources |-> useNetworkSources(networkData),
              hasOutput |-> hasOutput,
              output |-> IF hasOutput THEN Some(String(Val(data.output))) ELSE None]

\* useIsDuplicateReasoning of hooks/use-network-data.ts
useIsDuplicateReasoning(t, networkReasoning, isStreaming, isLastMessage) ==
  IF ~isStreaming \/ ~isLastMessage THEN FALSE
  ELSE IsSome(networkReasoning) /\ t = Val(networkReasoning)

isWeatherData(d) ==
  /\ d.temperature = A_NUMBER
  /\ IsString(d.location)
  /\ IsString(d.conditions)

\* the first weatherTool result, in step order and then in result order,
\* that is weather data; None for null
extractWeatherFromNetwork(networkData) ==
  IF ~IsSome(networkData) \/ ~IsSome(Val(networkData).steps) THEN None
  ELSE LET steps == Val(Val(networkData).steps)
           toolResults(k) ==
             IF IsSome(steps[k].task) /\ IsSome(Val(steps[k].task).toolResults)
               THEN Val(Val(steps[k].task).toolResults)
               ELSE << >>
           isWeather(result) ==
             /\ result.toolName = "weatherTool"
             /\ IsSome(result.result)
             /\ isWeatherData(Val(result.result))
           found(k) == \E j \in 1..Len(toolResults(k)) : isWeather(toolResults(k)[j])
       IN  IF ~\E k \in 1..Len(steps) : found(k) THEN None
           ELSE LET k == CHOOSE i \in 1..Len(steps) : found(i) /\ \A h \in 1..(i - 1) : ~found(h)
                    j == CHOOSE i \in 1..Len(toolResults(k)) :
                           /\ isWeather(toolResults(k)[i])
                           /\ \A h \in 1..(i - 1) : ~isWeather(toolResults(k)[h])
                IN  toolResults(k)[j].result

\* the children of the network renderer's <div>, in the order of the JSX
NetworkRendererComponent(part, partIndex, isLastMessage, status, hasText) ==
  LET networkData == part.data
      isStreaming == status = "streaming"
      extracted == useNetworkData(networkData)
      weatherData == extractWeatherFromNetwork(networkData)
      shouldShowFallback ==
        ~hasText /\ status = "ready" /\ isLastMessage /\ extracted.hasOutput
      reasoningBlock(streaming) ==
        IF Truthy(extracted.reasoning)
          THEN <<Element("Reasoning", None, streaming, Val(extracted.reasoning))>> ELSE << >>
      weatherBlock ==
        IF IsSome(weatherData) THEN <<Element("WeatherCard", None, FALSE, Val(weatherData))>> ELSE << >>
      sourcesBlock ==
        IF IsSome(extracted.sources) /\ Len(Val(extracted.sources)) > 0
          THEN <<Element("Sources", None, FALSE, Val(extracted.sources))>> ELSE << >>
      outputBlock ==
        IF Truthy(extracted.output)
          THEN <<Element("MessageResponse", None, FALSE, Val(extracted.output))>> ELSE << >>
  IN  IF shouldShowFallback
        THEN Some(Element("div", Some(partIndex), FALSE,
                  reasoningBlock(FALSE) \o weatherBlock
                    \o <<Element("NetworkExecution", None, FALSE, networkData)>>
                    \o sourcesBlock \o outputBlock))
        ELSE Some(Element("div", Some(partIndex), FALSE,
                  reasoningBlock(isStreaming) \o weatherBlock
                    \o <<Element("NetworkExecution", None, isStreaming, networkData)>>
                    \o sourcesBlock))

\* a reasoning renderer that shows the block whatever the chat status
ReasoningRendererAlways(part, partIndex, isLastMessage, status) ==
  IF ~Truthy(part.text) THEN None
  ELSE Some(Element("Reasoning", Some(partIndex), status = "streaming", Val(part.text)))

ReasoningRendererComponent(part, partIndex, isLastMessage, status) ==
  IF status # "streaming" \/ ~isLastMessage THEN None
  ELSE IF ~Truthy(part.text) THEN None
  ELSE Some(Element("Reasoning", Some(partIndex), status = "streaming", Val(part.text)))

\* components/chat/message-part-renderer.tsx: the dispatcher MemoizedMessage
\* uses, one branch per part type
MessagePartRenderer(part, partIndex, isLastMessage, status) ==
  IF part.type = TEXT /\ IsSome(part.text)
    THEN IF ~Truthy(part.text) \/ Trim(Val(part.text)) = << >> THEN None
         ELSE Some(Element("MessageResponse", Some(partIndex), FALSE, Val(part.text)))
  ELSE IF part.type = REASONING /\ IsSome(part.text)
    THEN IF status # "streaming" \/ ~isLastMessage THEN None
         ELSE Some(Element("Reasoning", Some(partIndex), status = "streaming", Val(part.text)))
  ELSE IF part.type = DATA_NETWORK /\ IsSome(part.data)
    THEN LET networkData == Val(part.data)
             k == IF IsSome(networkData.steps) THEN findStepWithTask(Val(networkData.steps)) ELSE 0
             reasoningText == IF k = 0 THEN None ELSE Val(Val(networkData.steps)[k].task).reason
         IN  Some(Element("div", Some(partIndex), FALSE,
                  (IF Truthy(reasoningText)
                     THEN <<Element("Reasoning", None, status = "streaming", Val(reasoningText))>>
                     ELSE << >>)
                    \o <<Element("NetworkExecution", None, status = "streaming", part.data)>>))
  ELSE IF part.type = DYNAMIC_TOOL /\ IsSome(part.output)
    THEN Some(Element("div", Some(partIndex), FALSE, Val(part.output)))
  ELSE IF StartsWith(part.type, TOOL_PREFIX)
    THEN Some(Element("Tool", Some(partIndex), FALSE, part.type))
  ELSE None

\* a test that counts only the text parts that show something
hasVisibleTextPart(parts) ==
  \E k \in 1..Len(parts) :
    parts[k].type = TEXT /\ Truthy(parts[k].text) /\ Trim(Val(parts[k].text)) # << >>

hasTextPart(parts) == \E k \in 1..Len(parts) : parts[k].type = TEXT

MkProps(message, isLastMessage, status) ==
  [message |-> message, isLastMessage |-> isLastMessage, status |-> status]

\* a comparison that looks at the message alone: id and number of parts
areMessagesEqualByParts(prev, next) ==
  /\ prev.message.id = next.message.id
  /\ Len(prev.message.parts) = Len(next.message.parts)

\* a comparison without the rule for the streaming last message and
\* without the look at the number of parts
areMessagesEqualByStatus(prev, next) ==
  /\ prev.message.id = next.message.id
  /\ prev.status = next.status
  /\ prev.isLastMessage = next.isLastMessage

\* TRUE when React.memo may skip the render
areMessagesEqual(prev, next) ==
  IF prev.message.id # next.message.id THEN FALSE
  ELSE IF prev.status # next.status THEN FALSE
  ELSE IF prev.isLastMessage # next.isLastMessage THEN FALSE
  ELSE IF next.isLastMessage /\ next.status = "streaming" THEN FALSE
  ELSE IF Len(prev.message.parts) # Len(next.message.parts) THEN FALSE
  ELSE TRUE

\* MemoizedMessage's render: message.parts.map((part, index) => ...)
MemoizedMessage(props) ==
  [k \in 1..Len(props.message.parts) |->
     MessagePartRenderer(props.message.parts[k], k - 1, props.isLastMessage, props.status)]

\* what React.memo leaves on screen after an update of the props
memoized(prev, next, shown) ==
  IF areMessagesEqual(prev, next) THEN shown ELSE MemoizedMessage(next)

\* the renderer components of the registry applied to the same props
RendererComponents(props) ==
  LET parts == props.message.parts
  IN  [k \in 1..Len(parts) |->
         IF isTextPart(parts[k])
           THEN TextRendererComponent(Val(parts[k].text), parts,
                                      props.status = "streaming", props.isLastMessage).rendered
         ELSE IF isReasoningPart(parts[k])
           THEN ReasoningRendererComponent(parts[k], k - 1, props.isLastMessage, props.status)
         ELSE IF isNetworkPart(parts[k])
           THEN NetworkRendererComponent(parts[k], k - 1, props.isLastMessage, props.status,
                                         hasTextPart(parts))
         ELSE None]


(***************************************************************************)
(* One assistant message m of the conversation, from the moment the stream *)
(* creates it as the last message: parts arrive and grow while the chat is *)
(* streaming, the chat status changes, and other messages are appended     *)
(* after m.  Every update hands new props to MemoizedMessage.              *)
(***************************************************************************)
WHY == <<"w", "h", "y">>

HM == <<"h", "m">>

Statuses == {"submitted", "streaming", "ready", "error"}

ViewTask(reason, toolResults) == [reason |-> reason, toolResults |-> toolResults]

ViewStep(name, task, output) == [name |-> name, task |-> task, output |-> output]

ViewNetwork(steps, output) ==
  MkPart(DATA_NETWORK, None, Some([steps |-> steps, output |-> output]))

WeatherResult ==
  [toolName |-> "weatherTool",
   result |-> Some([temperature |-> A_NUMBER, location |-> <<"x">>, conditions |-> <<"y">>])]

\* a weatherTool result that is not weather data, and one without a result
NotWeatherResults ==
  << [toolName |-> "weatherTool",
      result |-> Some([temperature |-> UNDEFINED, location |-> <<"x">>, conditions |-> <<"y">>])],
     [toolName |-> "searchTool", result |-> None] >>

\* data-network parts: without steps; with steps whose task is missing, has
\* no reason or an empty one before two reasoned steps; with a weather
\* result and web-search sources; with no step and an empty output
ViewNetworks ==
  { ViewNetwork(None, None),
    ViewNetwork(Some(<<ViewStep("routing-step", None, None),
                       ViewStep("agent-step", Some(ViewTask(Some(<< >>), None)), None),
                       ViewStep("agent-step", Some(ViewTask(Some(WHY), None)), None),
                       ViewStep("agent-step", Some(ViewTask(Some(HM), None)), None)>>),
                Some(DONE)),
    ViewNetwork(Some(<<ViewStep("agent-step",
                                Some(ViewTask(Some(HM), Some(NotWeatherResults \o <<WeatherResult>>))),
                                None),
                       ViewStep("web-search", None,
                                Some([sources |-> Some(<<MkSource(URL_A, None)>>)]))>>),
                Some(DONE)),
    ViewNetwork(Some(<< >>), Some(<< >>)),
    ViewNetwork(Some(<<ViewStep("agent-step", Some(ViewTask(None, None)), None)>>), None) }

ViewParts ==
  { TextOf(WHY), TextOf(DONE), TextOf(BLANK),
    ReasoningPart, MkPart(REASONING, Some(<< >>), None), ToolPart }
    \cup ViewNetworks

MessageM(parts) == [id |-> "m", parts |-> parts]

ViewInit ==
  /\ allParts = << >>
  /\ chatStatus = "streaming"
  /\ isLast = TRUE
  /\ prevProps = MkProps(MessageM(<< >>), TRUE, "streaming")
  /\ displayed = << >>
  /\ rendered = << >>
  /\ resolvedMessages = << >>
  /\ displayableMessages = << >>
  /\ pc = "storing"
  /\ renderers = << >>
  /\ sortedRenderers = << >>
  /\ lookedUp = None
  /\ registrationLog = NoLog
  /\ webSources = None
  /\ networkSources = None
  /\ partText = << >>
  /\ textDeltas = 0
  /\ parsed = None
  /\ isNewChat = FALSE
  /\ initialMessage = << >>
  /\ messagesLength = 0
  /\ initialMessageSentRef = FALSE
  /\ prevStatusRef = "ready"
  /\ sendMessageCalls = 0
  /\ invalidations = 0
  /\ inFlight = {}
  /\ threadId = << >>
  /\ listMessages = << >>
  /\ queryResult = << >>

\* React renders MemoizedMessage with the new props: areMessagesEqual decides
\* whether what is on screen stays
update(parts, isLastMessage, status) ==
  LET next == MkProps(MessageM(parts), isLastMessage, status)
  IN  /\ allParts' = parts
      /\ isLast' = isLastMessage
      /\ chatStatus' = status
      /\ prevProps' = next
      /\ displayed' = memoized(prevProps, next, displayed)
      /\ rendered' = RendererComponents(next)
      /\ UNCHANGED <<histVars, regVars, webSources, networkSources, partText, textDeltas, parsed,
                     pageVars, queryVars>>

\* the stream appends a part to the last message
PartStreamed ==
  /\ chatStatus = "streaming"
  /\ isLast
  /\ Len(allParts) < MaxViewParts
  /\ \E part \in ViewParts : update(Append(allParts, part), isLast, chatStatus)

\* the stream rewrites the part it is producing (a text delta, a new step)
PartGrown ==
  /\ chatStatus = "streaming"
  /\ isLast
  /\ Len(allParts) > 0
  /\ \E part \in ViewParts :
       /\ part.type = allParts[Len(allParts)].type
       /\ part # allParts[Len(allParts)]
       /\ update([allParts EXCEPT ![Len(allParts)] = part], isLast, chatStatus)

StatusChanged ==
  \E status \in Statuses \ {chatStatus} : update(allParts, isLast, status)

\* another message is appended after m
MessageAppended ==
  /\ isLast
  /\ update(allParts, FALSE, chatStatus)

ViewNext == PartStreamed \/ PartGrown \/ StatusChanged \/ MessageAppended

SpecView == ViewInit /\ [][ViewNext]_vars

\* the props m is rendered with in the current state
CurrentProps == MkProps(MessageM(allParts), isLast, chatStatus)


(***************************************************************************)
(* C21  Network-reason extraction.                                         *)
(***************************************************************************)
StepsOf(part) ==
  IF IsSome(part.data) /\ IsSome(Val(part.data).steps) THEN Val(Val(part.data).steps) ELSE << >>

\* step i of the trace has a task with a non-empty reason
HasNonEmptyReason(steps, i) ==
  /\ IsSome(steps[i].task)
  /\ IsSome(Val(steps[i].task).reason)
  /\ Len(Val(Val(steps[i].task).reason)) > 0

\* r is what the claim says is extracted from the steps
IsExtractedReason(steps, r) ==
  IF \E i \in 1..Len(steps) : HasNonEmptyReason(steps, i)
    THEN \E i \in 1..Len(steps) :
           /\ HasNonEmptyReason(steps, i)
           /\ \A j \in 1..(i - 1) : ~HasNonEmptyReason(steps, j)
           /\ r = Val(steps[i].task).reason
    ELSE r = None

\* the texts of the Reasoning blocks among the children of a rendered <div>
ReasoningBlocks(el) ==
  LET children == Val(el).content
  IN  [i \in 1..Len(SelectSeq(children, LAMBDA c : c.tag = "Reasoning")) |->
         SelectSeq(children, LAMBDA c : c.tag = "Reasoning")[i].content]

\* C21: for every data-network part of the message, the reasoning that
\* useNetworkData extracts, and the reasoning block that the network
\* renderer and the message-part dispatcher show, is the task.reason of the
\* first step, in step order, whose task.reason is non-empty; it is null (no
\* block) when the part has no steps or no step has a non-empty reason.
NetworkReasonExtracted ==
  \A k \in 1..Len(allParts) :
    allParts[k].type = DATA_NETWORK =>
      LET steps == StepsOf(allParts[k])
          reasoning == useNetworkData(allParts[k].data).reasoning
      IN  /\ IsExtractedReason(steps, reasoning)
          /\ useNetworkData(None).reasoning = None
          /\ ReasoningBlocks(rendered[k]) = reasoning
          /\ ReasoningBlocks(displayed[k]) = reasoning

\* a part whose first three steps have no task, no reason or an empty one
\* is on screen with the reason of its fourth step
NetworkReasonExtractedWitness ==
  \E k \in 1..Len(allParts) :
    /\ allParts[k].type = DATA_NETWORK
    /\ Len(StepsOf(allParts[k])) = 4
    /\ ~HasNonEmptyReason(StepsOf(allParts[k]), 2)
    /\ ReasoningBlocks(rendered[k]) = Some(WHY)
    /\ ReasoningBlocks(displayed[k]) = Some(WHY)


(***************************************************************************)
(* C22  Duplicate reasoning suppression.                                   *)
(***************************************************************************)
HasNetworkPart == \E k \in 1..Len(allParts) : allParts[k].type = DATA_NETWORK

\* the data-network part of the message: the one find() returns
TheNetworkPart ==
  allParts[CHOOSE k \in 1..Len(allParts) :
             /\ allParts[k].type = DATA_NETWORK
             /\ \A j \in 1..(k - 1) : allParts[j].type # DATA_NETWORK]

NonEmptyText(part) ==
  part.type = TEXT /\ IsSome(part.text) /\ Trim(Val(part.text)) # << >>

\* the four conditions of the claim, for the text part at position k
IsDuplicateOfNetworkReason(k) ==
  /\ isLast
  /\ chatStatus = "streaming"
  /\ HasNetworkPart
  /\ Some(Val(allParts[k].text)) = useNetworkData(TheNetworkPart.data).reasoning

\* C22: the text renderer renders nothing for a non-empty text part exactly
\* when the message is the last one, the status is 'streaming', the message
\* has a data-network part, and the text equals the reason extracted from
\* that part; useIsDuplicateReasoning, given the extracted reason, decides
\* the same.
DuplicateReasoningSuppressed ==
  \A k \in 1..Len(allParts) :
    NonEmptyText(allParts[k]) =>
      /\ (rendered[k] = None) <=> IsDuplicateOfNetworkReason(k)
      /\ useIsDuplicateReasoning(Val(allParts[k].text),
                                 IF HasNetworkPart
                                   THEN useNetworkData(TheNetworkPart.data).reasoning
                                   ELSE None,
                                 chatStatus = "streaming", isLast)
           <=> IsDuplicateOfNetworkReason(k)

\* the streamed text repeats the network reason and is not shown
DuplicateReasoningSuppressedWitness ==
  /\ isLast
  /\ chatStatus = "streaming"
  /\ \E k \in 1..Len(allParts) :
       /\ NonEmptyText(allParts[k])
       /\ IsDuplicateOfNetworkReason(k)
       /\ rendered[k] = None


(***************************************************************************)
(* C23  Reasoning visibility.                                              *)
(***************************************************************************)
IsReasoning(part) == part.type = REASONING /\ IsSome(part.text)

LastAndStreaming == isLast /\ chatStatus = "streaming"

\* C23 as stated: a reasoning part produces output, through the reasoning
\* renderer and through the message-part dispatcher, if and only if its
\* message is the last one and the status is 'streaming'.
ReasoningShownIffLastAndStreaming ==
  \A k \in 1..Len(allParts) :
    IsReasoning(allParts[k]) =>
      /\ (rendered[k] # None) <=> LastAndStreaming
      /\ (displayed[k] # None) <=> LastAndStreaming

\* C23 amended: a reasoning part produces nothing unless its message is the
\* last one and the status is 'streaming'; when both hold, the message-part
\* dispatcher produces a reasoning block for it, and the reasoning renderer
\* produces one if and only if the text of the part is not empty.  What is
\* on screen depends on the part, on is-last-message and on the status alone.
ReasoningShownOnlyLastAndStreaming ==
  \A k \in 1..Len(allParts) :
    IsReasoning(allParts[k]) =>
      /\ (rendered[k] # None) <=> (LastAndStreaming /\ Val(allParts[k].text) # << >>)
      /\ (displayed[k] # None) <=> LastAndStreaming
      /\ rendered[k] # None => Val(rendered[k]).content = Val(allParts[k].text)
      /\ displayed[k] # None => Val(displayed[k]).content = Val(allParts[k].text)

\* while the last message streams, a reasoning part with text is shown by
\* both, and one whose text is still empty by the dispatcher alone
ReasoningShownOnlyLastAndStreamingWitness ==
  /\ LastAndStreaming
  /\ \E k \in 1..Len(allParts) :
       /\ IsReasoning(allParts[k])
       /\ rendered[k] # None
       /\ displayed[k] # None
  /\ \E k \in 1..Len(allParts) :
       /\ IsReasoning(allParts[k])
       /\ Val(allParts[k].text) = << >>
       /\ rendered[k] = None
       /\ displayed[k] # None


(***************************************************************************)
(* C24  Fallback synthesis.                                                *)
(***************************************************************************)
NoTextPartAtAll == \A k \in 1..Len(allParts) : allParts[k].type # TEXT

\* the four conditions of the claim for the data-network part
FallbackDue(part) ==
  /\ NoTextPartAtAll
  /\ chatStatus = "ready"
  /\ isLast
  /\ IsSome(part.data) /\ IsSome(Val(part.data).output)

Tags(children) == [i \in 1..Len(children) |-> children[i].tag]

Optional(present, tag) == IF present THEN <<tag>> ELSE << >>

\* reason, weather payload, raw trace, sources: the blocks both branches
\* produce, each optional one only when its data is there
TraceBlocks(part) ==
  Optional(IsSome(useNetworkData(part.data).reasoning), "Reasoning")
    \o Optional(IsSome(extractWeatherFromNetwork(part.data)), "WeatherCard")
    \o <<"NetworkExecution">>
    \o Optional(IsSome(useNetworkData(part.data).sources), "Sources")

OutputTextOf(el) ==
  LET children == SelectSeq(Val(el).content, LAMBDA c : c.tag = "MessageResponse")
  IN  [i \in 1..Len(children) |-> children[i].content]

\* C24: for a data-network part the network renderer produces the fallback
\* block if and only if the message has no text part at all, the status is
\* 'ready', the message is the last one and the network data has a non-null
\* output; the block holds, in this order, the reason, the weather payload,
\* the raw trace, the sources and the output text, each optional block left
\* out when its data is absent; otherwise the renderer shows the same blocks
\* without the output text.
FallbackSynthesis ==
  \A k \in 1..Len(allParts) :
    allParts[k].type = DATA_NETWORK =>
      LET part == allParts[k]
          output == Val(part.data).output
      IN  /\ rendered[k] # None
          /\ Val(rendered[k]).key = Some(k - 1)
          /\ IF FallbackDue(part)
               THEN /\ Tags(Val(rendered[k]).content)
                         = TraceBlocks(part) \o Optional(Val(output) # << >>, "MessageResponse")
                    /\ OutputTextOf(rendered[k]) = (IF Val(output) # << >> THEN output ELSE << >>)
                    /\ \A i \in 1..Len(Val(rendered[k]).content) :
                         ~Val(rendered[k]).content[i].isStreaming
               ELSE /\ Tags(Val(rendered[k]).content) = TraceBlocks(part)
                    /\ OutputTextOf(rendered[k]) = << >>

\* the fallback block with all of its five blocks is on screen
FallbackSynthesisWitness ==
  \E k \in 1..Len(allParts) :
    /\ allParts[k].type = DATA_NETWORK
    /\ FallbackDue(allParts[k])
    /\ Tags(Val(rendered[k]).content)
         = <<"Reasoning", "WeatherCard", "NetworkExecution", "Sources", "MessageResponse">>
    /\ OutputTextOf(rendered[k]) = Some(DONE)


(***************************************************************************)
(* lib/mastra-queries.ts, threadMessagesQueryOptions, and its two callers  *)
(* in routes/chat.$threadId.tsx: the route loader (ensureQueryData) and    *)
(* the page (useQuery).  listMessages is what the memory thread answers:   *)
(* it throws an error or returns the stored messages.                      *)
(***************************************************************************)
MkError(isError, message, status) ==
  [isError |-> isError, message |-> message, status |-> status]

HTTP_404 == <<"H", "T", "T", "P", " ", "4", "0", "4">>

HTTP_500 == <<"H", "T", "T", "P", " ", "5", "0", "0">>

\* new Error('HTTP 404'), new Error('HTTP 500'), and thrown responses
\* { status: 404 } and { status: 500 }
Errors ==
  { MkError(TRUE, Some(HTTP_404), None), MkError(TRUE, Some(HTTP_500), None),
    MkError(FALSE, None, Some(404)), MkError(FALSE, None, Some(500)) }

\* a test that looks at the status alone
is404ByStatus(error) == error.status = Some(404)

is404(error) ==
  \/ error.isError /\ IsSome(error.message) /\ Includes(Val(error.message), <<"4", "0", "4">>)
  \/ error.status = Some(404)

Returned(exists, messages) ==
  [threw |-> FALSE, exists |-> exists, messages |-> messages, error |-> None]

Thrown(error) == [threw |-> TRUE, exists |-> FALSE, messages |-> << >>, error |-> Some(error)]

queryFn(id, answer) ==
  IF ~Truthy(id) THEN Returned(FALSE, << >>)
  ELSE IF answer.throws
    THEN IF is404(Val(answer.error)) THEN Returned(FALSE, << >>) ELSE Thrown(Val(answer.error))
  ELSE IF ~IsSome(answer.messages) \/ Len(Val(answer.messages)) = 0
    THEN Returned(TRUE, << >>)
  ELSE Returned(TRUE, filterDisplayableMessages(Val(answer.messages)))

\* retry: false
retry == FALSE

\* how React Query runs the query function: once, and again after a failure
\* as often as the retry option says (three times by default)
runQuery(id, answer) ==
  LET outcome == queryFn(id, answer)
  IN  [outcome |-> outcome,
       attempts |-> IF outcome.threw /\ retry # FALSE THEN 4 ELSE 1]

ThreadIds == {None, Some(<< >>), Some(<<"t", "1">>)}

Conversations ==
  {<<m>> : m \in HistoryShapes} \cup {<<m, n>> : m \in HistoryShapes, n \in HistoryShapes}

Answers ==
  { [throws |-> TRUE, error |-> Some(error), messages |-> None] : error \in Errors }
    \cup { [throws |-> FALSE, error |-> None, messages |-> messages] :
             messages \in {None, Some(<< >>)} \cup {Some(c) : c \in Conversations} }

QueryInit ==
  /\ threadId \in ThreadIds
  /\ listMessages \in Answers
  /\ isNewChat \in BOOLEAN
  /\ queryResult = None
  /\ pc = "idle"
  /\ resolvedMessages = << >>
  /\ displayableMessages = << >>
  /\ renderers = << >>
  /\ sortedRenderers = << >>
  /\ lookedUp = None
  /\ registrationLog = NoLog
  /\ allParts = << >>
  /\ webSources = None
  /\ networkSources = None
  /\ partText = << >>
  /\ textDeltas = 0
  /\ parsed = None
  /\ rendered = None
  /\ chatStatus = "ready"
  /\ isLast = TRUE
  /\ prevProps = << >>
  /\ displayed = << >>
  /\ initialMessage = << >>
  /\ messagesLength = 0
  /\ initialMessageSentRef = FALSE
  /\ prevStatusRef = "ready"
  /\ sendMessageCalls = 0
  /\ invalidations = 0
  /\ inFlight = {}

\* Route.loader: a new chat is rendered without a query; otherwise the
\* loader awaits the query, fails with its error, redirects to '/' when the
\* thread does not exist, and renders the page with the messages
loader ==
  /\ pc = "idle"
  /\ IF isNewChat
       THEN /\ pc' = "rendered"
            /\ displayableMessages' = << >>
            /\ UNCHANGED queryResult
       ELSE LET data == runQuery(threadId, listMessages)
            IN  /\ queryResult' = Some(data)
                /\ pc' = IF data.outcome.threw THEN "failed"
                         ELSE IF ~data.outcome.exists THEN "redirected"
                         ELSE "rendered"
                /\ displayableMessages' =
                     IF ~data.outcome.threw /\ data.outcome.exists
                       THEN data.outcome.messages ELSE << >>
  /\ UNCHANGED <<resolvedMessages, regVars, textVars, viewVars, pageVars, threadId, listMessages>>

\* ChatPage: useQuery({...threadMessagesQueryOptions(threadId), enabled:
\* !isNewChat && loaderData.threadExists}) fetches again, and the thread
\* may answer differently; the messages of a fresh result replace the
\* loader's (freshMessages?.messages || loaderMessages)
useQuery ==
  /\ pc = "rendered"
  /\ ~isNewChat
  /\ \E answer \in Answers :
       LET data == runQuery(threadId, answer)
       IN  /\ listMessages' = answer
           /\ queryResult' = Some(data)
           /\ displayableMessages' =
                IF ~data.outcome.threw THEN data.outcome.messages ELSE displayableMessages
  /\ UNCHANGED <<resolvedMessages, pc, regVars, textVars, viewVars, pageVars, threadId>>

QueryNext == loader \/ useQuery

SpecQuery == QueryInit /\ [][QueryNext]_vars

(***************************************************************************)
(* C25  History fetch outcomes.                                            *)
(***************************************************************************)
\* the fetch failed with an error that says 404, in its message or in its
\* status
FailedNotFound ==
  /\ listMessages.throws
  /\ LET error == Val(listMessages.error)
     IN  \/ error.isError /\ Val(error.message) = HTTP_404
         \/ error.status = Some(404)

\* C25: whenever the thread-messages query has run, it has returned
\* {exists: false, messages: []} if the thread id is empty or the fetch
\* failed with a 404 error, {exists: true, messages: []} if the thread has
\* no messages, {exists: true, messages: the normalized conversation}
\* otherwise, and for any other failure it has thrown the error of the
\* fetch, after a single attempt and with no result.
FetchOutcomes ==
  IsSome(queryResult) =>
    LET outcome == Val(queryResult).outcome
    IN  IF threadId \in {None, Some(<< >>)} \/ FailedNotFound
          THEN outcome = Returned(FALSE, << >>)
        ELSE IF listMessages.throws
          THEN /\ outcome.threw
               /\ outcome.error = listMessages.error
               /\ outcome.messages = << >>
               /\ Val(queryResult).attempts = 1
               /\ pc # "redirected"
        ELSE IF listMessages.messages \in {None, Some(<< >>)}
          THEN outcome = Returned(TRUE, << >>)
        ELSE outcome = Returned(TRUE, filterDisplayableMessages(Val(listMessages.messages)))


\* the fetch failed with a server error: the loader failed with that error
\* after one attempt, and did not redirect
FetchOutcomesWitness ==
  /\ IsSome(queryResult)
  /\ threadId = Some(<<"t", "1">>)
  /\ listMessages.throws
  /\ Val(listMessages.error) = MkError(TRUE, Some(HTTP_500), None)
  /\ Val(queryResult).outcome.threw
  /\ Val(queryResult).attempts = 1
  /\ pc = "failed"


(***************************************************************************)
(* C26  Reasoning disappears when the stream settles.                      *)
(***************************************************************************)
\* what MemoizedMessage has on screen for m holds a block of a reasoning part
ReasoningOnScreen ==
  \E k \in 1..Len(displayed) : displayed[k] # None /\ Val(displayed[k]).tag = "Reasoning"

\* the update ends the streaming or appends a message after m
Settles ==
  \/ chatStatus = "streaming" /\ chatStatus' # "streaming"
  \/ isLast /\ ~isLast'

\* C26: after every update in which the status changes from 'streaming' to
\* another value, or in which another message is appended after m, what is
\* on screen for m holds no reasoning part; a reasoning block is on screen
\* only while m is the last message and the status is 'streaming'; and
\* areMessagesEqual reports a change for every update in which the status
\* or isLastMessage differs.
ReasoningDisappears ==
  /\ [](ReasoningOnScreen => LastAndStreaming)
  /\ [][Settles => ~ReasoningOnScreen']_vars
  /\ [][(chatStatus' # chatStatus \/ isLast' # isLast)
          => ~areMessagesEqual(prevProps, prevProps')]_vars

\* m holds a reasoning part that the stream brought while m was the last
\* message, the stream has ended, and the block is no longer on screen
ReasoningDisappearsWitness ==
  /\ chatStatus = "ready"
  /\ isLast
  /\ \E k \in 1..Len(allParts) :
       /\ IsReasoning(allParts[k])
       /\ Len(displayed) = Len(allParts)
       /\ displayed[k] = None


(***************************************************************************)
(* C27  Dispatch in arrival order with no skipped part.                    *)
(***************************************************************************)
\* what is on screen is one output per part of m, in part order, each made
\* by the dispatcher from its part, its own index and the current props
AllPartsDispatched ==
  /\ Len(displayed) = Len(allParts)
  /\ \A k \in 1..Len(allParts) :
       /\ displayed[k] = MessagePartRenderer(allParts[k], k - 1, isLast, chatStatus)
       /\ displayed[k] # None => Val(displayed[k]).key = Some(k - 1)

\* C27: after every arrival of a part on the last message while streaming,
\* and in every state, what is on screen for the message is the output of
\* all of its parts, one per part in part-index order, each with its own
\* index; areMessagesEqual never reports equal props for the streaming last
\* message nor for a message with one more part, so no render that shows a
\* new part is skipped.
DispatchInArrivalOrder ==
  /\ [](AllPartsDispatched)
  /\ [](\A part \in ViewParts :
          ~areMessagesEqual(CurrentProps,
                            MkProps(MessageM(Append(allParts, part)), isLast, chatStatus)))
  /\ [][(isLast' /\ chatStatus' = "streaming") \/ Len(allParts') # Len(allParts)
          => /\ ~areMessagesEqual(prevProps, prevProps')
             /\ displayed' = MemoizedMessage(prevProps')]_vars

\* two parts have arrived on the streaming last message and both are on
\* screen, the first with index 0 and the second with index 1
DispatchInArrivalOrderWitness ==
  /\ LastAndStreaming
  /\ Len(allParts) = 2
  /\ Len(displayed) = 2
  /\ displayed[1] # None /\ Val(displayed[1]).key = Some(0)
  /\ displayed[2] # None /\ Val(displayed[2]).key = Some(1)


(***************************************************************************)
(* routes/chat.$threadId.tsx, ChatPage: the two effects that follow the    *)
(* chat status.  A commit is one render of the page with the values of the *)
(* chat store and of the route followed by the effects whose dependencies  *)
(* changed.  sendMessage and navigate are asynchronous: a call is in       *)
(* flight until the store or the route shows its result.                   *)
(***************************************************************************)
MaxMessages == 3

MaxInvalidations == 2

\* the first effect without the ref that remembers the call
initialMessageEffectNoRef(mount, new, status) ==
  /\ mount \/ new # isNewChat \/ status # chatStatus
  /\ new
  /\ Truthy(initialMessage)
  /\ status # "streaming"

\* the effect of lines 154-159 runs and calls sendMessage
initialMessageEffect(mount, new, status) ==
  /\ mount \/ new # isNewChat \/ status # chatStatus
  /\ new
  /\ Truthy(initialMessage)
  /\ ~initialMessageSentRef
  /\ status # "streaming"

\* the effect of lines 164-191 runs
completionEffectRuns(mount, new, status, length) ==
  mount \/ status # chatStatus \/ length # messagesLength \/ new # isNewChat

\* the second effect without the look at the previous status
streamCompletionEffectAnyPrev(mount, new, status, length) ==
  /\ completionEffectRuns(mount, new, status, length)
  /\ status = "ready"
  /\ length > 1

\* the effect of lines 164-191 runs and invalidates the threads
streamCompletionEffect(mount, new, status, length) ==
  /\ completionEffectRuns(mount, new, status, length)
  /\ prevStatusRef = "streaming"
  /\ status = "ready"
  /\ length > 1

\* one render of ChatPage with these values, and its effects
commit(mount, new, status, length, flying) ==
  LET sends == initialMessageEffect(mount, new, status)
      invalidates == streamCompletionEffect(mount, new, status, length)
  IN  /\ isNewChat' = new
      /\ chatStatus' = status
      /\ messagesLength' = length
      /\ initialMessageSentRef' = (initialMessageSentRef \/ sends)
      /\ sendMessageCalls' = sendMessageCalls + (IF sends THEN 1 ELSE 0)
      /\ invalidations' = invalidations + (IF invalidates THEN 1 ELSE 0)
      /\ prevStatusRef' = IF completionEffectRuns(mount, new, status, length)
                            THEN status ELSE prevStatusRef
      /\ inFlight' = flying \cup (IF sends THEN {"sendMessage"} ELSE {})
                            \cup (IF invalidates /\ new THEN {"navigate"} ELSE {})
      /\ UNCHANGED <<initialMessage, resolvedMessages, displayableMessages, regVars, textVars,
                     isLast, prevProps, displayed, queryVars>>

PageInit ==
  /\ pc = "mounting"
  /\ chatStatus = "ready"
  /\ isNewChat \in BOOLEAN
  /\ initialMessage \in {None, Some(<< >>), Some(DONE)}
  /\ messagesLength \in (IF isNewChat THEN {0} ELSE 0..2)
  /\ initialMessageSentRef = FALSE
  /\ prevStatusRef = chatStatus
  /\ sendMessageCalls = 0
  /\ invalidations = 0
  /\ inFlight = {}
  /\ resolvedMessages = << >>
  /\ displayableMessages = << >>
  /\ renderers = << >>
  /\ sortedRenderers = << >>
  /\ lookedUp = None
  /\ registrationLog = NoLog
  /\ allParts = << >>
  /\ webSources = None
  /\ networkSources = None
  /\ partText = << >>
  /\ textDeltas = 0
  /\ parsed = None
  /\ rendered = None
  /\ isLast = TRUE
  /\ prevProps = << >>
  /\ displayed = << >>
  /\ threadId = << >>
  /\ listMessages = << >>
  /\ queryResult = << >>


\* the first commit of the page: every effect runs
Mounted ==
  /\ pc = "mounting"
  /\ pc' = "mounted"
  /\ commit(TRUE, isNewChat, chatStatus, messagesLength, inFlight)

\* useChat changes the status, the number of messages, or both
ChatUpdates ==
  /\ pc = "mounted"
  /\ invalidations < MaxInvalidations
  /\ \E status \in Statuses, length \in {messagesLength, messagesLength + 1} :
       /\ length <= MaxMessages
       /\ <<status, length>> # <<chatStatus, messagesLength>>
       /\ commit(FALSE, isNewChat, status, length, inFlight)
  /\ UNCHANGED pc

\* a sendMessage call takes effect: the user message is appended and the
\* status becomes 'submitted'
Submitted ==
  /\ pc = "mounted"
  /\ "sendMessage" \in inFlight
  /\ messagesLength < MaxMessages
  /\ commit(FALSE, isNewChat, "submitted", messagesLength + 1, inFlight \ {"sendMessage"})
  /\ UNCHANGED pc

\* the navigation that clears the 'new' search flag takes effect
Navigated ==
  /\ pc = "mounted"
  /\ "navigate" \in inFlight
  /\ commit(FALSE, FALSE, chatStatus, messagesLength, inFlight \ {"navigate"})
  /\ UNCHANGED pc

\* the user submits a message of their own, which the page refuses while
\* streaming
handleSubmit ==
  /\ pc = "mounted"
  /\ chatStatus # "streaming"
  /\ inFlight' = inFlight \cup {"sendMessage"}
  /\ UNCHANGED <<histVars, regVars, textVars, viewVars, queryVars, isNewChat, initialMessage,
                 messagesLength, initialMessageSentRef, prevStatusRef, sendMessageCalls,
                 invalidations>>

PageNext == Mounted \/ ChatUpdates \/ Submitted \/ Navigated \/ handleSubmit

SpecPage == PageInit /\ [][PageNext]_vars

(***************************************************************************)
(* C28  The initial message is sent at most once.                          *)
(***************************************************************************)
\* C28: sendMessage is called with the initial message of the navigation
\* state at most once per page instance, only when the page is a new chat
\* with an initial message, and never in a render whose status is
\* 'streaming'.
InitialMessageSentOnce ==
  /\ [](sendMessageCalls <= 1)
  /\ [](sendMessageCalls = 1 <=> initialMessageSentRef)
  /\ [][sendMessageCalls' # sendMessageCalls
          => /\ sendMessageCalls' = sendMessageCalls + 1
             /\ isNewChat'
             /\ Truthy(initialMessage)
             /\ chatStatus' # "streaming"
             /\ "sendMessage" \in inFlight']_vars

\* the initial message has been sent, its answer has streamed to the end,
\* the page is no longer a new chat, and no second call was made
InitialMessageSentOnceWitness ==
  /\ sendMessageCalls = 1
  /\ invalidations = 1
  /\ ~isNewChat
  /\ chatStatus = "ready"
  /\ inFlight = {}


(***************************************************************************)
(* C29  Thread invalidation follows stream completion.                     *)
(***************************************************************************)
\* the step calls invalidateThreads
Invalidates == invalidations' # invalidations

\* the step calls navigate to clear the 'new' search flag
ClearsNewFlag == "navigate" \in inFlight' /\ "navigate" \notin inFlight

\* C29: the thread list is invalidated, and the 'new' search flag cleared
\* for a new chat, only in a commit whose status is 'ready' where the
\* commit before had 'streaming', and only if the conversation then holds
\* more than one message; no other change of status and no completion with
\* a single message does it, and a streaming-to-ready change does it once.
InvalidationFollowsCompletion ==
  /\ [][Invalidates
          => /\ chatStatus = "streaming"
             /\ chatStatus' = "ready"
             /\ messagesLength' > 1
             /\ invalidations' = invalidations + 1]_vars
  /\ [][ClearsNewFlag => Invalidates /\ isNewChat]_vars
  /\ [][chatStatus = "streaming" /\ chatStatus' = "ready" /\ messagesLength' > 1
          => Invalidates]_vars
  /\ [](pc = "mounted" => prevStatusRef = chatStatus)

\* two answers have streamed to the end in a conversation of three
\* messages, the first in a new chat: two invalidations, one for each
InvalidationFollowsCompletionWitness ==
  /\ invalidations = 2
  /\ sendMessageCalls = 1
  /\ messagesLength = 3
  /\ chatStatus = "ready"
  /\ ~isNewChat


(***************************************************************************)
(* C30  Post-dedup adjacency invariant.                                    *)
(***************************************************************************)
IsDynamicToolAssistant(message) ==
  /\ message.role = "assistant"
  /\ \E k \in 1..Len(message.parts) : message.parts[k].type = DYNAMIC_TOOL

IsTextOnlyAssistant(message) ==
  /\ message.role = "assistant"
  /\ \A k \in 1..Len(message.parts) : message.parts[k].type = TEXT

\* C30: in the normalized conversation no assistant message that holds a
\* dynamic-tool part is immediately followed by an assistant message that
\* holds a dynamic-tool part or consists of text parts only.
NoRunLeftAfterDedup ==
  pc = "loaded" =>
    \A k \in 1..(Len(displayableMessages) - 1) :
      IsDynamicToolAssistant(displayableMessages[k]) =>
        /\ ~IsDynamicToolAssistant(displayableMessages[k + 1])
        /\ ~IsTextOnlyAssistant(displayableMessages[k + 1])

\* a stored run of a dynamic-tool message and its continuations has been
\* normalized, and the message that follows the survivor is an assistant
\* message the run ended at
NoRunLeftAfterDedupWitness ==
  /\ pc = "loaded"
  /\ Len(displayableMessages) < Len(filteredMessages(resolvedMessages))
  /\ \E k \in 1..(Len(displayableMessages) - 1) :
       /\ IsDynamicToolAssistant(displayableMessages[k])
       /\ displayableMessages[k + 1].role = "assistant"

====
